---- MODULE Spec2Model ----
(***************************************************************************)
(* Lead-management board: the Kanban board component, the opportunity      *)
(* details modal, the history page, the opportunities service and the      *)
(* team-recommendation modal, as a state machine.                          *)
(*                                                                         *)
(* A handler that awaits a database call is two steps: the synchronous     *)
(* part up to the await (optimistic update, request put in flight) and the *)
(* continuation that runs when the call returns (success or failure).      *)
(* Requests in flight complete in any order.                               *)
(*                                                                         *)
(* Spec is the board, the details modal and the history page.  SpecRank is *)
(* the team-recommendation modal ranking the team members for the          *)
(* opportunity it is given.  SpecService is the opportunities service      *)
(* called function by function, each statement it sends to the database    *)
(* failing or not.  SpecIntake is the review overlay of the new-opportunity *)
(* modal matching the skills the AI suggests with the names in Skills.     *)
(* SpecSelect is the two skill pickers, MultiSelect and TagInput.  SpecSort *)
(* is the history page sorting the rows it has loaded.                     *)
(***************************************************************************)
EXTENDS Integers, Sequences, FiniteSets, TLC

\* ------------------------------------------------------------------ bounds
\* database calls of the board in flight together
MaxInFlight == 2
\* calls already in flight when the details modal is opened or makes a call
MaxModalOverlap == 0

\* ------------------------------------------------------------- value sets
OppIds == <<"o1">>
MemberIds == {"m1"}
NULL == "null"
Statuses == {"new", "assigned", "done", "cancelled", "archived"}
Columns == {"new", "assigned", "done"}
Urgencies == {"high", "medium", "low"}
\* the urgencies chosen in the edit form
EditedUrgencies == {"high", "low"}
SkillIds == {"s1", "s2"}
PENDING_OPTION == "Pending / No specific skill"

\* Profiles.full_name
full_name(m) == IF m = "m1" THEN "Ana" ELSE ""

\* Skills.name
skillName(s) ==
  IF s = "s1" THEN "React" ELSE IF s = "s2" THEN "Node" ELSE "Pending"

\* skills.map(s => s.name)
skillNames(ids) == [k \in 1..Len(ids) |-> skillName(ids[k])]

\* the id of the "Pending" row of Skills
PendingSkillId == "sp"

\* String.prototype.toLowerCase on the status and urgency values stored
toLowerCase(value) ==
  IF value = "New" THEN "new"
  ELSE IF value = "Assigned" THEN "assigned"
  ELSE IF value = "High" THEN "high"
  ELSE IF value = "Medium" THEN "medium"
  ELSE IF value = "Low" THEN "low"
  ELSE value

\* --------------------------------------------------------------- sequences
Includes(s, x) == \E i \in 1..Len(s) : s[i] = x

\* ---------------------------------------------------- service: row -> record
\* skills of a record: an array, or undefined when the service leaves
\* requiredSkillIds out of the object it returns
Undefined == [defined |-> FALSE, ids |-> <<>>]
Defined(ids) == [defined |-> TRUE, ids |-> ids]

NoOpp ==
  [id |-> "none", status |-> "new", assigneeId |-> NULL, assignee |-> "",
   urgency |-> "medium", requiredSkill |-> <<>>, requiredSkillId |-> NULL,
   requiredSkillIds |-> Undefined]

\* the record getOpportunities builds from a row (with its cleanup of status)
transformOpportunity(id, row) ==
  [id |-> id,
   status |-> IF row.assigned_user_id # NULL /\ toLowerCase(row.status) = "new"
              THEN "assigned" ELSE toLowerCase(row.status),
   assigneeId |-> row.assigned_user_id,
   assignee |-> full_name(row.assigned_user_id),
   urgency |-> toLowerCase(row.urgency),
   requiredSkill |-> skillNames(row.skills),
   requiredSkillId |-> IF Len(row.skills) > 0 THEN row.skills[1] ELSE NULL,
   requiredSkillIds |-> Defined(row.skills)]

\* the record updateOpportunityStatus and updateOpportunityAssignment return
statusResult(id, row) ==
  [id |-> id,
   status |-> toLowerCase(row.status),
   assigneeId |-> row.assigned_user_id,
   assignee |-> full_name(row.assigned_user_id),
   urgency |-> toLowerCase(row.urgency),
   requiredSkill |-> skillNames(row.skills),
   requiredSkillId |-> IF Len(row.skills) > 0 THEN row.skills[1] ELSE NULL,
   requiredSkillIds |-> Undefined]

\* the record updateOpportunityDetails returns
detailsResult(id, row) ==
  [id |-> id,
   status |-> toLowerCase(row.status),
   assigneeId |-> row.assigned_user_id,
   assignee |-> full_name(row.assigned_user_id),
   urgency |-> toLowerCase(row.urgency),
   requiredSkill |-> skillNames(row.skills),
   requiredSkillId |-> IF Len(row.skills) > 0 THEN row.skills[1] ELSE NULL,
   requiredSkillIds |-> Defined(row.skills)]

getOpportunities(d) ==
  LET ids == SelectSeq(OppIds, LAMBDA id : d[id].exists)
  IN [k \in 1..Len(ids) |-> transformOpportunity(ids[k], d[ids[k]])]

\* ------------------------------------------------------------- board rules
validateMoveAlwaysValid(fromStatus, toStatus) == TRUE

validateMove(fromStatus, toStatus) ==
  ~(fromStatus = "assigned" /\ toStatus = "new")

\* handleDragEnd: the move waits for a team member to be chosen
requiresAssignmentNever(oldStatus, newStatus) == FALSE

requiresAssignment(oldStatus, newStatus) ==
  oldStatus = "new" /\ newStatus = "assigned"

\* handleDragEnd: the move waits for the 'Mark as Done?' dialog
requiresConfirmationNever(newStatus) == FALSE

requiresConfirmation(newStatus) == newStatus = "done"

\* opportunities.find(opp => opp.id === id)
find(opps, id) ==
  IF \E i \in 1..Len(opps) : opps[i].id = id
  THEN opps[CHOOSE i \in 1..Len(opps) :
              opps[i].id = id /\ \A j \in 1..(i-1) : opps[j].id # id]
  ELSE NoOpp

\* prev.map(opp => opp.id === id ? { ...opp, status } : opp)
setStatus(opps, id, st) ==
  LET f(o) == IF o.id = id THEN [o EXCEPT !.status = st] ELSE o
  IN [k \in 1..Len(opps) |-> f(opps[k])]

\* prev.map(opp => opp.id === id ? { ...opp, status: 'assigned', assignee: 'Loading...' } : opp)
setAssigning(opps, id) ==
  LET f(o) == IF o.id = id
              THEN [o EXCEPT !.status = "assigned", !.assignee = "Loading..."]
              ELSE o
  IN [k \in 1..Len(opps) |-> f(opps[k])]

\* prev.filter(opp => opp.id !== opportunityId)
removeOpp(opps, id) == SelectSeq(opps, LAMBDA opp : opp.id # id)

\* prev.map(opp => opp.id === id ? updated : opp)
replaceOpp(opps, id, updated) ==
  LET f(o) == IF o.id = id THEN updated ELSE o
  IN [k \in 1..Len(opps) |-> f(opps[k])]

FilterSets ==
  [urgency : {"all"} \cup Urgencies,
   skill : {"all"} \cup SkillIds,
   assignedTeam : {"all"} \cup MemberIds]

filteredOpportunitiesNoStatusCheck(opps, filters) ==
  SelectSeq(opps, LAMBDA opp :
    /\ (filters.urgency # "all" => opp.urgency = filters.urgency)
    /\ (filters.skill # "all" => opp.requiredSkillId = filters.skill)
    /\ (filters.assignedTeam # "all" => opp.assigneeId = filters.assignedTeam))

filteredOpportunities(opps, filters) ==
  SelectSeq(opps, LAMBDA opp :
    /\ opp.status \in {"new", "assigned", "done"}
    /\ (filters.urgency # "all" => opp.urgency = filters.urgency)
    /\ (filters.skill # "all" => opp.requiredSkillId = filters.skill)
    /\ (filters.assignedTeam # "all" => opp.assigneeId = filters.assignedTeam))

\* the cards of one Kanban column
columnCards(opps, filters, col) ==
  SelectSeq(filteredOpportunities(opps, filters), LAMBDA o : o.status = col)

\* ------------------------------------------- TeamRecommendationModal
\* getTeamMembers: the members with the ids of their skills
MemberNames == {"adam", "Ben", "Zoe"}
MemberSkillIds == {<<>>, <<"s1">>, <<"s1", "s2">>, <<"sp">>}

\* a.localeCompare(b): adam < Ben < Zoe
collationKey(name) ==
  IF name = "adam" THEN 1 ELSE IF name = "Ben" THEN 2 ELSE 3

localeCompare(a, b) == collationKey(a) - collationKey(b)

\* opportunity.requiredSkillIds || []
requiredSkillIdsOf(opportunity) == opportunity.requiredSkillIds.ids

hasOnlyPending(opportunity) ==
  /\ Len(opportunity.requiredSkill) = 1
  /\ opportunity.requiredSkill[1] = PENDING_OPTION

\* no ranking: only the Pending option is selected, or there are no skill ids
neutral(opportunity) ==
  hasOnlyPending(opportunity) \/ Len(requiredSkillIdsOf(opportunity)) = 0

\* member.skillIds.filter(skillId => requiredSkillIds.includes(skillId))
matchingSkillIds(member, opportunity) ==
  SelectSeq(member.skillIds,
            LAMBDA skillId : Includes(requiredSkillIdsOf(opportunity), skillId))

matchTypeAnyIsPerfect(member, opportunity) ==
  IF neutral(opportunity) THEN "none"
  ELSE IF Len(matchingSkillIds(member, opportunity)) > 0 THEN "perfect"
  ELSE "none"

matchType(member, opportunity) ==
  IF neutral(opportunity) THEN "none"
  ELSE IF /\ Len(matchingSkillIds(member, opportunity))
              = Len(requiredSkillIdsOf(opportunity))
          /\ Len(requiredSkillIdsOf(opportunity)) > 0
  THEN "perfect"
  ELSE IF Len(matchingSkillIds(member, opportunity)) > 0 THEN "partial"
  ELSE "none"

membersWithScores(members, opportunity) ==
  LET score(member) ==
        [name |-> member.name, skillIds |-> member.skillIds,
         matchType |-> matchType(member, opportunity)]
  IN [k \in 1..Len(members) |-> score(members[k])]

\* the members the search query keeps; hits are the names it matches
filteredMembers(scored, hits) == SelectSeq(scored, LAMBDA member : member.name \in hits)

order(t) == IF t = "perfect" THEN 0 ELSE IF t = "partial" THEN 1 ELSE 2

sortByMatchTypeOnly(a, b) == order(a.matchType) - order(b.matchType)

sortByMatchType(a, b) ==
  IF order(a.matchType) # order(b.matchType)
  THEN order(a.matchType) - order(b.matchType)
  ELSE localeCompare(a.name, b.name)

byName(a, b) == localeCompare(a.name, b.name)

\* Array.prototype.sort with a comparator, given as the table of its results
\* on the elements of s: a stable sort
sort(s, compare) ==
  LET before(j, i) == compare[s[j], s[i]] < 0 \/ (compare[s[j], s[i]] = 0 /\ j < i)
      pos(i) == 1 + Cardinality({j \in 1..Len(s) : before(j, i)})
  IN [k \in 1..Len(s) |-> s[CHOOSE i \in 1..Len(s) : pos(i) = k]]

sortedMembers(filtered, opportunity) ==
  LET members == {filtered[k] : k \in 1..Len(filtered)} IN
  IF neutral(opportunity)
  THEN sort(filtered, [a \in members, b \in members |-> byName(a, b)])
  ELSE sort(filtered, [a \in members, b \in members |-> sortByMatchType(a, b)])

ofType(sorted, t) == SelectSeq(sorted, LAMBDA m : m.matchType = t)

NoSections ==
  [rendered |-> FALSE, perfectMatches |-> <<>>, partialMatches |-> <<>>,
   noMatches |-> <<>>, allMembers |-> <<>>]

\* the member lists of the modal, in the order it renders them
memberSections(members, opportunity, hits) ==
  LET sorted == sortedMembers(filteredMembers(membersWithScores(members, opportunity),
                                              hits), opportunity)
  IN [rendered |-> TRUE,
      perfectMatches |-> ofType(sorted, "perfect"),
      partialMatches |-> ofType(sorted, "partial"),
      noMatches |-> ofType(sorted, "none"),
      allMembers |-> IF neutral(opportunity) THEN sorted ELSE <<>>]

\* ------------------------------------------------------------------ state
VARIABLES
  db,                      \* Opportunities table: id -> row
  page,                    \* the mounted page: "dashboard" or "history"
  opportunities,           \* useState<Opportunity[]> of the mounted page
  updatingIds,             \* KanbanBoard.updatingIds
  selectedOpportunity,     \* the opportunity shown in the details modal
  recommendationModalOpen, \* KanbanBoard.recommendationModalOpen
  opportunityToAssign,     \* KanbanBoard.opportunityToAssign
  pendingMove,             \* KanbanBoard.pendingMove
  showDoneConfirmation,    \* KanbanBoard.showDoneConfirmation
  isEditing,               \* OpportunityDetailsModal.isEditing
  isSaving,                \* OpportunityDetailsModal.isSaving
  inflight,                \* database calls awaiting their response
  toasts,                  \* notifications shown by the last step
  teamMembers,             \* TeamRecommendationModal.teamMembers
  searchHits,              \* names TeamRecommendationModal.searchQuery matches
  sections,                \* the member lists TeamRecommendationModal renders
  pendingSkill,            \* the id of the row of Skills named 'Pending', or NULL
  returned,                \* the last call of the opportunities service
  dbSkills,                \* NewOpportunityModal.skills: the names in Skills
  aiSuggestedSkills,       \* NewOpportunityModal.aiSuggestedSkills
  selectedSkills,          \* NewOpportunityModal.selectedSkills
  showResults,             \* NewOpportunityModal.showResults
  dispatched,              \* opportunityStatusChanged events of the last step
  selectProps,             \* the props of the mounted MultiSelect and TagInput
  selected,                \* MultiSelect.selected, held by its parent
  tags,                    \* TagInput.tags, held by its parent
  inputValue,              \* TagInput.inputValue
  showSuggestions,         \* TagInput.showSuggestions
  sortBy,                  \* OpportunitiesPage.sortBy
  filteredAndSortedOpportunities  \* the rows the history page renders

vars ==
  <<db, page, opportunities, updatingIds, selectedOpportunity,
    recommendationModalOpen, opportunityToAssign, pendingMove,
    showDoneConfirmation, isEditing, isSaving, inflight, toasts,
    teamMembers, searchHits, sections, pendingSkill, returned,
    dbSkills, aiSuggestedSkills, selectedSkills, showResults, dispatched,
    selectProps, selected, tags, inputValue, showSuggestions,
    sortBy, filteredAndSortedOpportunities>>

NoMove == [opportunityId |-> "none", newStatus |-> "new"]

\* a database call in flight, with what its continuation closes over
NoReq ==
  [kind |-> "none", handler |-> "none", id |-> "none", newStatus |-> "new",
   memberId |-> NULL, urgency |-> "absent", assigned_user_id |-> "absent",
   skillIds |-> Undefined,
   prevOpps |-> <<>>, previousStatus |-> "new",
   page |-> "dashboard", modalAlive |-> FALSE]

InitRow == [exists |-> TRUE, status |-> "new", assigned_user_id |-> NULL,
            urgency |-> "high", ai_summary |-> "summary",
            original_message |-> "message", skills |-> <<"s1">>]

\* no call of the service has been made
NoCall ==
  [op |-> "none", id |-> "none", threw |-> FALSE,
   assigned_user_id |-> "absent", skillIds |-> Undefined]

\* no MultiSelect and no TagInput is mounted
NoProps ==
  [options |-> <<>>, disabled |-> TRUE, restrictToAvailable |-> FALSE,
   showPendingOption |-> FALSE]

noSkillInput ==
  /\ selectProps = NoProps
  /\ selected = <<>>
  /\ tags = <<>>
  /\ inputValue = <<>>
  /\ showSuggestions = FALSE

\* const [sortBy, setSortBy] = useState("recent"); nothing rendered yet
unsorted ==
  /\ sortBy = "recent"
  /\ filteredAndSortedOpportunities = <<>>

Init ==
  /\ db = [id \in {OppIds[i] : i \in 1..Len(OppIds)} |-> InitRow]
  /\ page = "dashboard"
  /\ opportunities = getOpportunities(db)
  /\ updatingIds = {}
  /\ selectedOpportunity = NoOpp
  /\ recommendationModalOpen = FALSE
  /\ opportunityToAssign = NoOpp
  /\ pendingMove = NoMove
  /\ showDoneConfirmation = FALSE
  /\ isEditing = FALSE
  /\ isSaving = FALSE
  /\ inflight = {}
  /\ toasts = <<>>
  /\ teamMembers = <<>>
  /\ searchHits = MemberNames
  /\ sections = NoSections
  /\ pendingSkill = PendingSkillId
  /\ returned = NoCall
  /\ dbSkills = <<>>
  /\ aiSuggestedSkills = <<>>
  /\ selectedSkills = <<>>
  /\ showResults = FALSE
  /\ dispatched = <<>>
  /\ noSkillInput
  /\ unsorted

\* ------------------------------------------------------------ UI guards
\* the dialogs are modal: while one is open the page behind it takes no input
assignModalShown == opportunityToAssign # NoOpp /\ recommendationModalOpen
detailsShown == selectedOpportunity # NoOpp
noDialog == ~assignModalShown /\ ~detailsShown /\ ~showDoneConfirmation
boardIdle == page = "dashboard" /\ noDialog
onBoard(opp) == opp.status \in Columns

\* calls made from the details modal
modalCalls ==
  {r \in inflight : r.kind \in {"details", "modalCancel", "historyCancel", "modalDelete"}}
\* the board may start a call
canSend ==
  /\ Cardinality(inflight) < MaxInFlight
  /\ modalCalls = {} \/ Cardinality(inflight) <= MaxModalOverlap
\* the details modal may be opened, or start a call
quiet == Cardinality(inflight) <= MaxModalOverlap

boardVars == <<updatingIds, recommendationModalOpen, opportunityToAssign,
               pendingMove, showDoneConfirmation>>
modalVars == <<selectedOpportunity, isEditing, isSaving>>
recommendationVars == <<teamMembers, searchHits, sections>>
serviceVars == <<pendingSkill, returned>>
intakeVars == <<dbSkills, aiSuggestedSkills, selectedSkills, showResults>>
selectVars == <<selectProps, selected, tags, inputValue, showSuggestions>>
historyVars == <<sortBy, filteredAndSortedOpportunities>>
otherVars == <<recommendationVars, serviceVars, intakeVars, selectVars, historyVars>>

\* ------------------------------------------------------- KanbanBoard
\* executeMove up to its await
executeMoveStart(id, newStatus, handler) ==
  LET opportunity == find(opportunities, id) IN
  /\ opportunity # NoOpp
  /\ opportunities' = setStatus(opportunities, id, newStatus)
  /\ updatingIds' = updatingIds \cup {id}
  /\ inflight' = inflight \cup
       {[NoReq EXCEPT !.kind = "move", !.handler = handler, !.id = id,
                      !.newStatus = newStatus, !.prevOpps = opportunities,
                      !.previousStatus = opportunity.status]}

\* handleUpdateStatus up to its await
handleUpdateStatusStart(id, newStatus, handler, closureOpps, others) ==
  /\ opportunities' = setStatus(opportunities, id, newStatus)
  /\ updatingIds' = updatingIds \cup {id}
  /\ inflight' = others \cup
       {[NoReq EXCEPT !.kind = "status", !.handler = handler, !.id = id,
                      !.newStatus = newStatus, !.prevOpps = closureOpps,
                      !.previousStatus =
                        IF find(closureOpps, id) = NoOpp THEN "undefined"
                        ELSE find(closureOpps, id).status]}

\* onDragEnd: card i is dropped on column destination ("none": outside any
\* column); source is the column the card is rendered in, so a drop on the
\* source column covers both "same position" and "status hasn't changed"
handleDragEnd(i, destination) ==
  LET opp == opportunities[i]
      source == opp.status
      newStatus == destination
      oldStatus == source
  IN
  /\ boardIdle
  /\ onBoard(opp)
  /\ UNCHANGED <<db, page, modalVars>>
  /\ IF destination = "none" \/ destination = source \/ opp.status = newStatus
     THEN /\ toasts' = <<>>
          /\ UNCHANGED <<opportunities, boardVars, inflight>>
     ELSE IF ~validateMove(oldStatus, newStatus)
     THEN /\ toasts' = <<"error: Cannot move from Assigned back to New">>
          /\ UNCHANGED <<opportunities, boardVars, inflight>>
     ELSE IF requiresAssignment(oldStatus, newStatus)
     THEN /\ opportunityToAssign' = opp
          /\ recommendationModalOpen' = TRUE
          /\ pendingMove' = [opportunityId |-> opp.id, newStatus |-> newStatus]
          /\ toasts' = <<>>
          /\ UNCHANGED <<opportunities, updatingIds, showDoneConfirmation, inflight>>
     ELSE IF requiresConfirmation(newStatus)
     THEN /\ pendingMove' = [opportunityId |-> opp.id, newStatus |-> newStatus]
          /\ showDoneConfirmation' = TRUE
          /\ toasts' = <<>>
          /\ UNCHANGED <<opportunities, updatingIds, recommendationModalOpen,
                         opportunityToAssign, inflight>>
     ELSE /\ canSend
          /\ executeMoveStart(opp.id, newStatus, "handleDragEnd")
          /\ toasts' = <<>>
          /\ UNCHANGED <<recommendationModalOpen, opportunityToAssign,
                         pendingMove, showDoneConfirmation>>
  /\ UNCHANGED otherVars
  /\ dispatched' = <<>>

\* the Assign button of a card in the New column
handleAssignClick(i) ==
  LET opp == opportunities[i] IN
  /\ boardIdle
  /\ opp.status = "new"
  /\ opp.id \notin updatingIds
  /\ opportunityToAssign' = opp
  /\ recommendationModalOpen' = TRUE
  /\ toasts' = <<>>
  /\ UNCHANGED <<db, page, opportunities, updatingIds, pendingMove,
                 showDoneConfirmation, modalVars, inflight>>
  /\ UNCHANGED otherVars
  /\ dispatched' = <<>>

\* the Done button of a card in the Assigned column
handleMoveToComplete(i) ==
  LET opp == opportunities[i] IN
  /\ boardIdle
  /\ opp.status = "assigned"
  /\ opp.id \notin updatingIds
  /\ canSend
  /\ handleUpdateStatusStart(opp.id, "done", "handleMoveToComplete", opportunities,
                             inflight)
  /\ toasts' = <<>>
  /\ UNCHANGED <<db, page, recommendationModalOpen, opportunityToAssign,
                 pendingMove, showDoneConfirmation, modalVars>>
  /\ UNCHANGED otherVars
  /\ dispatched' = <<>>

\* the Archive button of a card in the Done column
handleArchive(i) ==
  LET opp == opportunities[i] IN
  /\ boardIdle
  /\ opp.status = "done"
  /\ opp.id \notin updatingIds
  /\ canSend
  /\ handleUpdateStatusStart(opp.id, "archived", "handleArchive", opportunities,
                             inflight)
  /\ toasts' = <<>>
  /\ UNCHANGED <<db, page, recommendationModalOpen, opportunityToAssign,
                 pendingMove, showDoneConfirmation, modalVars>>
  /\ UNCHANGED otherVars
  /\ dispatched' = <<>>

\* a click on a card opens the details modal
onCardClick(i) ==
  LET opp == opportunities[i] IN
  /\ boardIdle
  /\ quiet
  /\ onBoard(opp)
  /\ selectedOpportunity' = opp
  /\ isEditing' = FALSE
  /\ isSaving' = FALSE
  /\ toasts' = <<>>
  /\ UNCHANGED <<db, page, opportunities, boardVars, inflight>>
  /\ UNCHANGED otherVars
  /\ dispatched' = <<>>

\* 'Mark as Done' in the confirmation dialog
handleConfirmDone ==
  /\ page = "dashboard"
  /\ showDoneConfirmation
  /\ toasts' = <<>>
  /\ UNCHANGED <<db, page, recommendationModalOpen, opportunityToAssign,
                 modalVars>>
  /\ IF pendingMove = NoMove
     THEN UNCHANGED <<opportunities, updatingIds, inflight, pendingMove,
                      showDoneConfirmation>>
     ELSE IF find(opportunities, pendingMove.opportunityId) = NoOpp
     THEN /\ showDoneConfirmation' = FALSE
          /\ pendingMove' = NoMove
          /\ UNCHANGED <<opportunities, updatingIds, inflight>>
     ELSE /\ canSend
          /\ executeMoveStart(pendingMove.opportunityId, pendingMove.newStatus,
                              "handleConfirmDone")
          /\ UNCHANGED <<pendingMove, showDoneConfirmation>>
  /\ UNCHANGED otherVars
  /\ dispatched' = <<>>

\* 'Cancel' in the confirmation dialog
cancelDoneConfirmation ==
  /\ page = "dashboard"
  /\ showDoneConfirmation
  /\ showDoneConfirmation' = FALSE
  /\ pendingMove' = NoMove
  /\ toasts' = <<>>
  /\ UNCHANGED <<db, page, opportunities, updatingIds, recommendationModalOpen,
                 opportunityToAssign, modalVars, inflight>>
  /\ UNCHANGED otherVars
  /\ dispatched' = <<>>

\* the confirmation dialog closed by Escape or a click outside it
dismissDoneConfirmation ==
  /\ page = "dashboard"
  /\ showDoneConfirmation
  /\ showDoneConfirmation' = FALSE
  /\ toasts' = <<>>
  /\ UNCHANGED <<db, page, opportunities, updatingIds, recommendationModalOpen,
                 opportunityToAssign, pendingMove, modalVars, inflight>>
  /\ UNCHANGED otherVars
  /\ dispatched' = <<>>

\* handleAssignTeamMember / handleAssignFromDrag up to the await
assignStart(memberId, handler) ==
  /\ updatingIds' = updatingIds \cup {opportunityToAssign.id}
  /\ opportunities' = setAssigning(opportunities, opportunityToAssign.id)
  /\ inflight' = inflight \cup
       {[NoReq EXCEPT !.kind = "assign", !.handler = handler,
                      !.id = opportunityToAssign.id, !.newStatus = "assigned",
                      !.memberId = memberId, !.prevOpps = opportunities,
                      !.previousStatus = opportunityToAssign.status]}

\* the Assign button of a member in the team-recommendation modal:
\* onAssignTeamMember(member.id) and then onOpenChange(false)
onAssignTeamMember(memberId) ==
  /\ page = "dashboard"
  /\ assignModalShown
  /\ canSend
  /\ assignStart(memberId, IF pendingMove # NoMove THEN "handleAssignFromDrag"
                                                   ELSE "handleAssignTeamMember")
  /\ recommendationModalOpen' = FALSE
  /\ opportunityToAssign' = NoOpp
  /\ pendingMove' = NoMove
  /\ toasts' = <<>>
  /\ UNCHANGED <<db, page, showDoneConfirmation, modalVars>>
  /\ UNCHANGED otherVars
  /\ dispatched' = <<>>

\* the team-recommendation modal closed without choosing: onOpenChange(false)
onOpenChangeFalse ==
  /\ page = "dashboard"
  /\ assignModalShown
  /\ recommendationModalOpen' = FALSE
  /\ opportunityToAssign' = NoOpp
  /\ pendingMove' = NoMove
  /\ toasts' = <<>>
  /\ UNCHANGED <<db, page, opportunities, updatingIds, showDoneConfirmation,
                 modalVars, inflight>>
  /\ UNCHANGED otherVars
  /\ dispatched' = <<>>

\* ------------------------------------------- OpportunityDetailsModal
\* the modal instance is unmounted: continuations of its calls still run,
\* but their setIsEditing / setIsSaving no longer reach a mounted component
orphan(reqs) == {[r EXCEPT !.modalAlive = FALSE] : r \in reqs}

\* onClose: Close button, Escape or a click outside the modal
onClose ==
  /\ detailsShown
  /\ selectedOpportunity' = NoOpp
  /\ isEditing' = FALSE
  /\ isSaving' = FALSE
  /\ inflight' = orphan(inflight)
  /\ toasts' = <<>>
  /\ UNCHANGED <<db, page, opportunities, boardVars>>
  /\ UNCHANGED otherVars
  /\ dispatched' = <<>>

handleEditStart ==
  /\ detailsShown
  /\ ~isEditing
  /\ isEditing' = TRUE
  /\ toasts' = <<>>
  /\ UNCHANGED <<db, page, opportunities, boardVars, selectedOpportunity,
                 isSaving, inflight>>
  /\ UNCHANGED otherVars
  /\ dispatched' = <<>>

\* the Cancel button of edit mode
cancelEdit ==
  /\ detailsShown
  /\ isEditing
  /\ ~isSaving
  /\ isEditing' = FALSE
  /\ toasts' = <<>>
  /\ UNCHANGED <<db, page, opportunities, boardVars, selectedOpportunity,
                 isSaving, inflight>>
  /\ UNCHANGED otherVars
  /\ dispatched' = <<>>

\* updates.assigned_user_id as handleSaveEdits computes it from the select
assignedUpdate(opportunity, assignedMemberId) ==
  IF assignedMemberId = "none"
  THEN IF opportunity.assigneeId # NULL THEN NULL ELSE "absent"
  ELSE IF assignedMemberId # opportunity.assigneeId THEN assignedMemberId
       ELSE "absent"

\* the ids of editedValues.selectedSkills, the skills the form was opened with
selectedSkillIds(opportunity) ==
  SelectSeq(<<"s1", "s2", PendingSkillId>>,
            LAMBDA id : Includes(opportunity.requiredSkill, skillName(id))
                        /\ skillName(id) # PENDING_OPTION)

\* skillIdsToUpdate: the selected ids when they differ from requiredSkillIds
skillUpdate(opportunity) ==
  LET skillIds == selectedSkillIds(opportunity)
      currentSkillIds == opportunity.requiredSkillIds.ids
      skillIdsChanged ==
        \/ Len(skillIds) # Len(currentSkillIds)
        \/ \E k \in 1..Len(skillIds) : ~Includes(currentSkillIds, skillIds[k])
  IN IF skillIdsChanged THEN Defined(skillIds) ELSE Undefined

\* 'Save Changes' with the edited urgency and team member
handleSaveEdits(urgency, assignedMemberId) ==
  LET opportunity == selectedOpportunity
      updUrgency == IF urgency # opportunity.urgency THEN urgency ELSE "absent"
      updAssigned == assignedUpdate(opportunity, assignedMemberId)
      skillIdsToUpdate == skillUpdate(opportunity)
  IN
  /\ detailsShown
  /\ isEditing
  /\ ~isSaving
  /\ Len(opportunity.requiredSkill) > 0
  /\ toasts' = <<>>
  /\ UNCHANGED <<db, page, opportunities, boardVars, selectedOpportunity>>
  /\ IF updUrgency = "absent" /\ updAssigned = "absent" /\ ~skillIdsToUpdate.defined
     THEN /\ isEditing' = FALSE
          /\ UNCHANGED <<isSaving, inflight>>
     ELSE /\ quiet
          /\ isSaving' = TRUE
          /\ UNCHANGED isEditing
          /\ inflight' = inflight \cup
               {[NoReq EXCEPT !.kind = "details", !.handler = "handleSaveEdits",
                              !.id = opportunity.id, !.urgency = updUrgency,
                              !.assigned_user_id = updAssigned,
                              !.skillIds = skillIdsToUpdate,
                              !.page = page, !.modalAlive = TRUE]}
  /\ UNCHANGED otherVars
  /\ dispatched' = <<>>

\* 'Assign to Team Member' in the modal footer
onAssignClick ==
  /\ detailsShown
  /\ ~isEditing
  /\ selectedOpportunity.assignee = ""
  /\ selectedOpportunity' = NoOpp
  /\ isEditing' = FALSE
  /\ isSaving' = FALSE
  /\ inflight' = orphan(inflight)
  /\ UNCHANGED <<db, page, opportunities, updatingIds, pendingMove,
                 showDoneConfirmation>>
  /\ IF page = "dashboard"
     THEN /\ opportunityToAssign' = selectedOpportunity
          /\ recommendationModalOpen' = TRUE
          /\ toasts' = <<>>
     ELSE /\ toasts' = <<"info: Use the Kanban board to assign opportunities">>
          /\ UNCHANGED <<opportunityToAssign, recommendationModalOpen>>
  /\ UNCHANGED otherVars
  /\ dispatched' = <<>>

\* 'Cancel Opportunity' in Advanced Settings, up to its await
cancelOpportunity ==
  /\ detailsShown
  /\ ~isEditing
  /\ selectedOpportunity.status \in {"new", "assigned", "done"}
  /\ quiet
  /\ inflight' = inflight \cup
       {[NoReq EXCEPT !.kind = "modalCancel", !.handler = "cancelOpportunity",
                      !.id = selectedOpportunity.id, !.newStatus = "cancelled",
                      !.prevOpps = opportunities, !.page = page,
                      !.modalAlive = TRUE]}
  /\ toasts' = <<>>
  /\ UNCHANGED <<db, page, opportunities, boardVars, modalVars>>
  /\ UNCHANGED otherVars
  /\ dispatched' = <<>>

\* setIsDeleting(true) .. finally setIsDeleting(false) of the mounted modal
isDeleting == \E r \in inflight : r.kind = "modalDelete" /\ r.modalAlive

\* 'Delete Opportunity' in Advanced Settings, up to its await; confirmed is
\* the answer to window.confirm
deleteOpportunityClick(confirmed) ==
  /\ detailsShown
  /\ page = "dashboard"
  /\ ~isEditing
  /\ selectedOpportunity.status \in {"new", "assigned", "done"}
  /\ ~isDeleting
  /\ toasts' = <<>>
  /\ UNCHANGED <<db, page, opportunities, boardVars, modalVars>>
  /\ IF ~confirmed
     THEN UNCHANGED inflight
     ELSE /\ quiet
          /\ inflight' = inflight \cup
               {[NoReq EXCEPT !.kind = "modalDelete",
                              !.handler = "deleteOpportunityClick",
                              !.id = selectedOpportunity.id,
                              !.prevOpps = opportunities, !.page = page,
                              !.modalAlive = TRUE]}
  /\ UNCHANGED otherVars
  /\ dispatched' = <<>>

\* the trash button of a row of the history page, up to its await
handleDeleteOpportunity(i, confirmed) ==
  LET opp == opportunities[i] IN
  /\ page = "history"
  /\ noDialog
  /\ toasts' = <<>>
  /\ UNCHANGED <<db, page, boardVars, modalVars>>
  /\ IF ~confirmed
     THEN UNCHANGED <<opportunities, inflight>>
     ELSE /\ Cardinality(inflight) < MaxInFlight
          /\ opportunities' = removeOpp(opportunities, opp.id)
          /\ inflight' = inflight \cup
               {[NoReq EXCEPT !.kind = "historyDelete",
                              !.handler = "handleDeleteOpportunity",
                              !.id = opp.id, !.page = "history"]}
  /\ UNCHANGED otherVars
  /\ dispatched' = <<>>

\* ------------------------------------------------- opportunities service
\* An update selects the row it wrote with .single(): a call on a row that
\* is gone from the table fails.
\* a status call that also clears the assignee of a row it makes new
updateOpportunityStatusUnassignsNew(d, id, newStatus) ==
  [d EXCEPT ![id].status = newStatus,
            ![id].assigned_user_id = IF newStatus = "new" THEN NULL ELSE @]

\* a status call that removes the row it archives
updateOpportunityStatusArchiveDeletes(d, id, newStatus) ==
  IF newStatus = "archived" THEN [d EXCEPT ![id].exists = FALSE]
  ELSE [d EXCEPT ![id].status = newStatus]

\* the row update of updateOpportunityStatus
updateOpportunityStatus(d, id, newStatus) ==
  [d EXCEPT ![id].status = newStatus]

\* deleteOpportunity: the row is gone from the table (no error when it
\* already was)
deleteOpportunity(d, id) == [d EXCEPT ![id].exists = FALSE]

\* the row update of updateOpportunityAssignment
updateOpportunityAssignment(d, id, assignedUserId) ==
  [d EXCEPT ![id].assigned_user_id = assignedUserId, ![id].status = "assigned"]

\* the statements of a call that the database can fail
NoFaults ==
  [linkDeleteError |-> FALSE, linkInsertError |-> FALSE, rowError |-> FALSE]
Faults ==
  [linkDeleteError : BOOLEAN, linkInsertError : BOOLEAN, rowError : BOOLEAN]

\* uuidRegex.test: the ids of the tables are UUIDs, names are not
uuidRegex(value) == value \in MemberIds \cup SkillIds \cup {PendingSkillId}

\* a blank assigned_user_id (trim() === '')
Blank == ""

\* an argument that is null: not undefined, so no default value replaces it
Null == [defined |-> FALSE, ids |-> <<NULL>>]

\* the rows of opportunity_skill of an opportunity after the delete and the
\* insert of updateOpportunityDetails, whose errors are only logged
skillLinks(links, skillIds, pending, f) ==
  LET kept == IF f.linkDeleteError THEN links ELSE <<>>
      wanted == IF Len(skillIds.ids) > 0 THEN skillIds.ids
                ELSE IF pending # NULL THEN <<pending>> ELSE <<>>
  IN IF ~skillIds.defined THEN links
     ELSE IF f.linkInsertError THEN kept ELSE kept \o wanted

\* an updateData that sets status assigned whenever it sets an assignee
updateDataAlwaysAssigned(row, urgency, assigned_user_id) ==
  LET r1 == IF urgency # "absent" THEN [row EXCEPT !.urgency = toLowerCase(urgency)]
            ELSE row
  IN IF assigned_user_id = "absent" THEN r1
     ELSE IF assigned_user_id = NULL \/ assigned_user_id = Blank
     THEN [r1 EXCEPT !.assigned_user_id = NULL, !.status = "new"]
     ELSE [r1 EXCEPT !.assigned_user_id = assigned_user_id, !.status = "assigned"]

\* updateData of updateOpportunityDetails applied to the row; a field is
\* "absent" when the updates object does not carry it
updateData(row, urgency, assigned_user_id) ==
  LET r1 == IF urgency # "absent" THEN [row EXCEPT !.urgency = toLowerCase(urgency)]
            ELSE row
  IN IF assigned_user_id = "absent" THEN r1
     ELSE IF assigned_user_id = NULL \/ assigned_user_id = Blank
     THEN [r1 EXCEPT !.assigned_user_id = NULL, !.status = "new"]
     ELSE [r1 EXCEPT !.assigned_user_id = assigned_user_id,
                     !.status = IF toLowerCase(row.status) = "new" THEN "assigned"
                                ELSE row.status]

\* updateOpportunityDetails throws: an assigned_user_id that is not a UUID,
\* the update of the row fails, or the row is gone (.single())
updateOpportunityDetailsThrows(d, id, urgency, assigned_user_id, f) ==
  \/ ~d[id].exists
  \/ assigned_user_id \notin {"absent", NULL, Blank} /\ ~uuidRegex(assigned_user_id)
  \/ f.rowError /\ (urgency # "absent" \/ assigned_user_id # "absent")

\* the tables after updateOpportunityDetails: the skill links are written
\* first, then the row, unless the call has thrown before
updateOpportunityDetails(d, id, urgency, assigned_user_id, skillIds, pending, f) ==
  LET row == d[id]
      r0 == [row EXCEPT !.skills = skillLinks(row.skills, skillIds, pending, f)]
  IN IF ~row.exists THEN d
     ELSE IF updateOpportunityDetailsThrows(d, id, urgency, assigned_user_id, f)
     THEN [d EXCEPT ![id] = r0]
     ELSE [d EXCEPT ![id] = updateData(r0, urgency, assigned_user_id)]

\* createOpportunity throws: a null skillIds (skillIds.length), a skill id
\* that is not a UUID, or the insert of the row fails
createOpportunityThrows(skillIds, f) ==
  \/ skillIds = Null
  \/ \E k \in 1..Len(skillIds.ids) : ~uuidRegex(skillIds.ids[k])
  \/ f.rowError

\* the tables after createOpportunity has inserted the row id and its skill
\* links; an error of the insert of the links is only logged
createOpportunity(d, id, urgency, skillIds, pending, f) ==
  LET finalSkillIds == IF Len(skillIds.ids) > 0 THEN skillIds.ids
                       ELSE IF pending # NULL THEN <<pending>> ELSE <<>>
  IN IF createOpportunityThrows(skillIds, f) THEN d
     ELSE [d EXCEPT ![id] =
             [exists |-> TRUE, status |-> "New", assigned_user_id |-> NULL,
              urgency |-> toLowerCase(urgency), ai_summary |-> "summary",
              original_message |-> "message",
              skills |-> IF f.linkInsertError THEN <<>> ELSE finalSkillIds]]

\* the count query: .eq('urgency', 'high').eq('status', 'new')
\* .is('assigned_user_id', null)
getHighPriorityCount(d) ==
  Cardinality({id \in DOMAIN d : /\ d[id].exists
                                  /\ d[id].urgency = "high"
                                  /\ d[id].status = "new"
                                  /\ d[id].assigned_user_id = NULL})

\* ------------------------------------------------ continuations of awaits
\* a rollback that resets only the status of the card of the failed call
rollbackOwnCard(r) == setStatus(opportunities, r.id, r.previousStatus)

\* catch: setOpportunities(previousOpportunities)
rollback(r) == r.prevOpps

\* toast.success(`Opportunity moved to ${newStatus}`)
movedTo(newStatus) ==
  IF newStatus = "done" THEN "success: Opportunity moved to done"
  ELSE IF newStatus = "archived" THEN "success: Opportunity moved to archived"
  ELSE "success: Opportunity moved to cancelled"

\* an event dispatched after every persisted change
statusChangedAlways(opportunityId, previousStatus, newStatus) ==
  <<[opportunityId |-> opportunityId, previousStatus |-> previousStatus,
     newStatus |-> newStatus]>>

\* window.dispatchEvent(new CustomEvent('opportunityStatusChanged', ...)) when
\* the status has changed to or from 'new'
statusChanged(opportunityId, previousStatus, newStatus) ==
  IF previousStatus = "new" \/ newStatus = "new"
  THEN <<[opportunityId |-> opportunityId, previousStatus |-> previousStatus,
          newStatus |-> newStatus]>>
  ELSE <<>>

\* handleDelete: the event of the deletion of a new opportunity
deleted(opportunityId, previousStatus) ==
  IF previousStatus = "new"
  THEN <<[opportunityId |-> opportunityId, previousStatus |-> "new",
          newStatus |-> NULL]>>
  ELSE <<>>

afterUpdateStatus(handler) ==
  IF handler = "handleArchive" THEN <<"success: Opportunity archived">>
  ELSE IF handler = "handleCancel" THEN <<"success: Opportunity cancelled">>
  ELSE <<>>

\* handleUpdateStatus after its await (and handleArchive / handleCancel after theirs)
completeStatus(r, ok) ==
  /\ r \in inflight
  /\ r.kind = "status"
  /\ ok => db[r.id].exists
  /\ inflight' = inflight \ {r}
  /\ updatingIds' = updatingIds \ {r.id}
  /\ IF ok
     THEN /\ db' = updateOpportunityStatus(db, r.id, r.newStatus)
          /\ opportunities' = replaceOpp(opportunities, r.id, statusResult(r.id, db'[r.id]))
          /\ toasts' = <<movedTo(r.newStatus)>> \o afterUpdateStatus(r.handler)
     ELSE /\ db' = db
          /\ opportunities' = rollback(r)
          /\ toasts' = <<"error: Failed to update opportunity status. Please try again.">>
                         \o afterUpdateStatus(r.handler)
  /\ UNCHANGED <<page, recommendationModalOpen, opportunityToAssign, pendingMove,
                 showDoneConfirmation, modalVars>>
  /\ UNCHANGED otherVars
  /\ dispatched' = IF ok THEN statusChanged(r.id, r.previousStatus, r.newStatus) ELSE <<>>

\* executeMove after its await (and handleConfirmDone after its await)
completeMove(r, ok) ==
  /\ r \in inflight
  /\ r.kind = "move"
  /\ ok => db[r.id].exists
  /\ inflight' = inflight \ {r}
  /\ updatingIds' = updatingIds \ {r.id}
  /\ IF ok
     THEN /\ db' = updateOpportunityStatus(db, r.id, r.newStatus)
          /\ opportunities' = replaceOpp(opportunities, r.id, statusResult(r.id, db'[r.id]))
          /\ toasts' = <<>>
     ELSE /\ db' = db
          /\ opportunities' = rollback(r)
          /\ toasts' = <<"error: Failed to update opportunity status. Please try again.">>
  /\ IF r.handler = "handleConfirmDone"
     THEN showDoneConfirmation' = FALSE /\ pendingMove' = NoMove
     ELSE UNCHANGED <<showDoneConfirmation, pendingMove>>
  /\ UNCHANGED <<page, recommendationModalOpen, opportunityToAssign,
                 modalVars>>
  /\ UNCHANGED otherVars
  /\ dispatched' = IF ok THEN statusChanged(r.id, r.previousStatus, r.newStatus) ELSE <<>>

\* handleAssignTeamMember / handleAssignFromDrag after the await
completeAssign(r, ok) ==
  /\ r \in inflight
  /\ r.kind = "assign"
  /\ ok => db[r.id].exists
  /\ inflight' = inflight \ {r}
  /\ updatingIds' = updatingIds \ {r.id}
  /\ IF ok
     THEN /\ db' = updateOpportunityAssignment(db, r.id, r.memberId)
          /\ opportunities' = replaceOpp(opportunities, r.id, statusResult(r.id, db'[r.id]))
          /\ toasts' = <<"success: Opportunity assigned successfully">>
          /\ recommendationModalOpen' = FALSE
          /\ opportunityToAssign' = NoOpp
     ELSE /\ db' = db
          /\ opportunities' = rollback(r)
          /\ toasts' = <<"error: Failed to assign opportunity">>
          /\ UNCHANGED <<recommendationModalOpen, opportunityToAssign>>
  /\ IF r.handler = "handleAssignFromDrag"
     THEN pendingMove' = NoMove
     ELSE UNCHANGED pendingMove
  /\ UNCHANGED <<page, showDoneConfirmation, modalVars>>
  /\ UNCHANGED otherVars
  /\ dispatched' = IF ok THEN statusChanged(r.id, r.previousStatus,
                                           statusResult(r.id, db'[r.id]).status) ELSE <<>>

\* the modal's handleSaveEdits after its await, with the page's onSaveEdits;
\* ok is a call all of whose statements have succeeded (SpecService has the
\* calls that return although the write of the skill links has failed)
completeDetails(r, ok) ==
  /\ r \in inflight
  /\ r.kind = "details"
  /\ ok => db[r.id].exists
  /\ inflight' = inflight \ {r}
  /\ IF ok
     THEN LET updated == detailsResult(r.id, db'[r.id]) IN
          /\ db' = updateOpportunityDetails(db, r.id, r.urgency, r.assigned_user_id,
                                             r.skillIds, pendingSkill, NoFaults)
          /\ opportunities' = replaceOpp(opportunities, r.id, updated)
          /\ selectedOpportunity' = updated
          /\ toasts' = IF r.page = "history"
                       THEN <<"success: Opportunity updated successfully",
                              "success: Opportunity updated successfully">>
                       ELSE <<"success: Opportunity updated successfully">>
          /\ isEditing' = IF r.modalAlive THEN FALSE ELSE isEditing
     ELSE /\ db' = db
          /\ toasts' = <<"error: Failed to update opportunity">>
          /\ UNCHANGED <<opportunities, selectedOpportunity, isEditing>>
  /\ isSaving' = IF r.modalAlive THEN FALSE ELSE isSaving
  /\ UNCHANGED <<page, boardVars>>
  /\ UNCHANGED otherVars
  /\ dispatched' = <<>>

\* 'Cancel Opportunity' after its await: the page's onCancel, then onClose
completeModalCancel(r, ok) ==
  /\ r \in inflight
  /\ r.kind = "modalCancel"
  /\ ok => db[r.id].exists
  /\ UNCHANGED <<page, recommendationModalOpen, opportunityToAssign, pendingMove,
                 showDoneConfirmation>>
  /\ IF ~ok
     THEN /\ inflight' = inflight \ {r}
          /\ toasts' = <<"error: Failed to cancel opportunity">>
          /\ UNCHANGED <<db, opportunities, updatingIds, modalVars>>
     ELSE /\ db' = updateOpportunityStatus(db, r.id, "cancelled")
          /\ toasts' = <<"success: Opportunity cancelled successfully">>
          /\ selectedOpportunity' = NoOpp
          /\ isEditing' = FALSE
          /\ isSaving' = FALSE
          /\ IF r.page = "dashboard"
             THEN handleUpdateStatusStart(r.id, "cancelled", "handleCancel",
                                          r.prevOpps, orphan(inflight \ {r}))
             ELSE /\ inflight' = orphan(inflight \ {r}) \cup
                       {[NoReq EXCEPT !.kind = "historyCancel",
                                      !.handler = "onCancel", !.id = r.id,
                                      !.newStatus = "cancelled",
                                      !.page = "history"]}
                  /\ UNCHANGED <<opportunities, updatingIds>>
  /\ UNCHANGED otherVars
  /\ dispatched' = <<>>

\* the history page's onCancel after its await
completeHistoryCancel(r, ok) ==
  /\ r \in inflight
  /\ r.kind = "historyCancel"
  /\ ok => db[r.id].exists
  /\ inflight' = inflight \ {r}
  /\ UNCHANGED <<page, boardVars>>
  /\ IF ok
     THEN /\ db' = updateOpportunityStatus(db, r.id, "cancelled")
          /\ opportunities' = setStatus(opportunities, r.id, "cancelled")
          /\ selectedOpportunity' = NoOpp
          /\ isEditing' = FALSE
          /\ isSaving' = FALSE
          /\ toasts' = <<"success: Opportunity cancelled successfully">>
     ELSE /\ toasts' = <<"error: Failed to cancel opportunity">>
          /\ UNCHANGED <<db, opportunities, modalVars>>
  /\ UNCHANGED otherVars
  /\ dispatched' = <<>>

\* 'Delete Opportunity' after its await: the board's onDelete (handleDelete up
\* to its await), then onClose
completeModalDelete(r, ok) ==
  /\ r \in inflight
  /\ r.kind = "modalDelete"
  /\ UNCHANGED <<page, boardVars>>
  /\ IF ~ok
     THEN /\ inflight' = inflight \ {r}
          /\ toasts' = <<"error: Failed to delete opportunity">>
          /\ UNCHANGED <<db, opportunities, modalVars>>
     ELSE /\ db' = deleteOpportunity(db, r.id)
          /\ toasts' = <<"success: Opportunity deleted successfully">>
          /\ opportunities' = removeOpp(opportunities, r.id)
          /\ inflight' = orphan(inflight \ {r}) \cup
               {[NoReq EXCEPT !.kind = "delete", !.handler = "handleDelete",
                              !.id = r.id,
                              !.previousStatus = find(r.prevOpps, r.id).status]}
          /\ selectedOpportunity' = NoOpp
          /\ isEditing' = FALSE
          /\ isSaving' = FALSE
  /\ UNCHANGED otherVars
  /\ dispatched' = <<>>

\* handleDelete after its await
completeDelete(r, ok) ==
  /\ r \in inflight
  /\ r.kind = "delete"
  /\ inflight' = inflight \ {r}
  /\ UNCHANGED <<page, boardVars, modalVars>>
  /\ IF ok
     THEN /\ db' = deleteOpportunity(db, r.id)
          /\ toasts' = <<"success: Opportunity deleted successfully">>
          /\ UNCHANGED opportunities
     ELSE /\ db' = db
          /\ opportunities' = getOpportunities(db)
          /\ toasts' = <<"error: Failed to delete opportunity">>
  /\ UNCHANGED otherVars
  /\ dispatched' = IF ok THEN deleted(r.id, r.previousStatus) ELSE <<>>

\* handleDeleteOpportunity after its await
completeHistoryDelete(r, ok) ==
  /\ r \in inflight
  /\ r.kind = "historyDelete"
  /\ inflight' = inflight \ {r}
  /\ UNCHANGED <<page, boardVars, modalVars>>
  /\ IF ok
     THEN /\ db' = deleteOpportunity(db, r.id)
          /\ toasts' = <<"success: Opportunity deleted successfully">>
          /\ UNCHANGED opportunities
     ELSE /\ db' = db
          /\ opportunities' = getOpportunities(db)
          /\ toasts' = <<"error: Failed to delete opportunity">>
  /\ UNCHANGED otherVars
  /\ dispatched' = <<>>

\* ------------------------------------------------------------ pages
\* the other page is mounted: its list is loaded with getOpportunities and
\* the state of the page left behind is gone
navigate(to) ==
  /\ to # page
  /\ noDialog
  /\ inflight = {}
  /\ page' = to
  /\ opportunities' = getOpportunities(db)
  /\ updatingIds' = {}
  /\ pendingMove' = NoMove
  /\ recommendationModalOpen' = FALSE
  /\ opportunityToAssign' = NoOpp
  /\ toasts' = <<>>
  /\ UNCHANGED <<db, showDoneConfirmation, modalVars, inflight>>
  /\ UNCHANGED otherVars
  /\ dispatched' = <<>>

\* a click on a row of the history page opens the details modal
onRowClick(i) ==
  /\ page = "history"
  /\ noDialog
  /\ quiet
  /\ selectedOpportunity' = opportunities[i]
  /\ isEditing' = FALSE
  /\ isSaving' = FALSE
  /\ toasts' = <<>>
  /\ UNCHANGED <<db, page, opportunities, boardVars, inflight>>
  /\ UNCHANGED otherVars
  /\ dispatched' = <<>>

\* ------------------------------------------------------------ behaviours
\* the cards (rows) of the mounted page
Idx == 1..Len(opportunities)

Next ==
  \/ \E i \in Idx, destination \in Columns \cup {"none"} : handleDragEnd(i, destination)
  \/ \E i \in Idx : handleAssignClick(i)
  \/ \E i \in Idx : handleMoveToComplete(i)
  \/ \E i \in Idx : handleArchive(i)
  \/ \E i \in Idx : onCardClick(i)
  \/ handleConfirmDone
  \/ cancelDoneConfirmation
  \/ dismissDoneConfirmation
  \/ \E m \in MemberIds : onAssignTeamMember(m)
  \/ onOpenChangeFalse
  \/ onClose
  \/ handleEditStart
  \/ cancelEdit
  \/ \E u \in EditedUrgencies, m \in MemberIds \cup {"none"} : handleSaveEdits(u, m)
  \/ onAssignClick
  \/ cancelOpportunity
  \/ \E r \in inflight, ok \in BOOLEAN : completeStatus(r, ok)
  \/ \E r \in inflight, ok \in BOOLEAN : completeMove(r, ok)
  \/ \E r \in inflight, ok \in BOOLEAN : completeAssign(r, ok)
  \/ \E r \in inflight, ok \in BOOLEAN : completeDetails(r, ok)
  \/ \E r \in inflight, ok \in BOOLEAN : completeModalCancel(r, ok)
  \/ \E r \in inflight, ok \in BOOLEAN : completeHistoryCancel(r, ok)
  \/ \E confirmed \in BOOLEAN : deleteOpportunityClick(confirmed)
  \/ \E i \in Idx, confirmed \in BOOLEAN : handleDeleteOpportunity(i, confirmed)
  \/ \E r \in inflight, ok \in BOOLEAN : completeModalDelete(r, ok)
  \/ \E r \in inflight, ok \in BOOLEAN : completeDelete(r, ok)
  \/ \E r \in inflight, ok \in BOOLEAN : completeHistoryDelete(r, ok)
  \/ \E to \in {"dashboard", "history"} : navigate(to)
  \/ \E i \in Idx : onRowClick(i)

Spec == Init /\ [][Next]_vars

\* --------------------------------------- the team-recommendation modal
\* the opportunities the modal can be given: as getOpportunities, the status
\* calls and the details modal's handleSaveEdits leave them in the board's list
RecommendedFor ==
  {[NoOpp EXCEPT !.id = "o1", !.requiredSkill = skills[1],
                 !.requiredSkillIds = skills[2],
                 !.requiredSkillId = IF Len(skills[2].ids) > 0 THEN skills[2].ids[1]
                                     ELSE NULL] :
     skills \in
       {<<(<<"React">>), Defined(<<"s1">>)>>,          \* one skill link
        <<(<<"React", "Node">>), Defined(<<"s1", "s2">>)>>,  \* two skill links
        <<(<<"React", "Node">>), Undefined>>,          \* as a status call returns it
        <<(<<>>), Defined(<<>>)>>,                     \* no skill link
        <<(<<"Pending">>), Defined(<<PendingSkillId>>)>>,    \* created without skills
        <<(<<PENDING_OPTION>>), Defined(<<PendingSkillId>>)>>, \* Pending chosen in the form
        <<(<<PENDING_OPTION>>), Defined(<<>>)>>}}      \* the same, no "Pending" row

\* the teams getTeamMembers can return: one row per profile, in the order
\* of the database's collation
Teams ==
  {<<[name |-> a, skillIds |-> sa], [name |-> b, skillIds |-> sb],
     [name |-> c, skillIds |-> sc]>> :
     a \in MemberNames, b \in MemberNames, c \in MemberNames,
     sa \in MemberSkillIds, sb \in MemberSkillIds, sc \in MemberSkillIds}

InitRank ==
  /\ db = [id \in {OppIds[i] : i \in 1..Len(OppIds)} |-> InitRow]
  /\ page = "dashboard"
  /\ opportunities = getOpportunities(db)
  /\ updatingIds = {}
  /\ selectedOpportunity = NoOpp
  /\ recommendationModalOpen = TRUE
  /\ opportunityToAssign \in RecommendedFor
  /\ pendingMove = NoMove
  /\ showDoneConfirmation = FALSE
  /\ isEditing = FALSE
  /\ isSaving = FALSE
  /\ inflight = {}
  /\ toasts = <<>>
  /\ teamMembers \in {t \in Teams : t[1].name # t[2].name /\ t[1].name # t[3].name
                                     /\ t[2].name # t[3].name}
  /\ searchHits = MemberNames
  /\ sections = NoSections
  /\ pendingSkill = PendingSkillId
  /\ returned = NoCall
  /\ dbSkills = <<>>
  /\ aiSuggestedSkills = <<>>
  /\ selectedSkills = <<>>
  /\ showResults = FALSE
  /\ dispatched = <<>>
  /\ noSkillInput
  /\ unsorted

pageVars ==
  <<db, page, opportunities, boardVars, modalVars, inflight, toasts, dispatched>>

\* the modal renders with the team members it has loaded
renderMembers ==
  /\ assignModalShown
  /\ ~sections.rendered
  /\ sections' = memberSections(teamMembers, opportunityToAssign, searchHits)
  /\ UNCHANGED <<pageVars, teamMembers, searchHits, serviceVars, intakeVars,
                 selectVars, historyVars>>

\* the search box is edited, and the modal renders again
setSearchQuery(hits) ==
  /\ assignModalShown
  /\ sections.rendered
  /\ hits # searchHits
  /\ searchHits' = hits
  /\ sections' = memberSections(teamMembers, opportunityToAssign, hits)
  /\ UNCHANGED <<pageVars, teamMembers, serviceVars, intakeVars,
                 selectVars, historyVars>>

NextRank ==
  \/ renderMembers
  \/ \E hits \in SUBSET MemberNames : setSearchQuery(hits)

SpecRank == InitRank /\ [][NextRank]_vars

\* ------------------------------------------- the opportunities service
\* SpecService is one client calling the functions of the service one after
\* the other on a table that starts empty; every statement a function sends
\* to the database may fail.
\* rows of opportunity_skill one opportunity may have
MaxLinks == 2

ServiceUrgencies == {"High", "low"}
AssignedUserIds == {"absent", NULL, Blank, "m1", "Ana"}
CreatedSkillIds ==
  {Undefined, Null, Defined(<<>>), Defined(<<"s1">>), Defined(<<"React">>)}
UpdatedSkillIds == {Undefined, Defined(<<>>), Defined(<<"s2">>)}
UpdatedUrgencies == {"absent", "High"}
NewStatuses == {"new", "done", "archived"}

InitService ==
  /\ db = [id \in {OppIds[i] : i \in 1..Len(OppIds)} |->
             [InitRow EXCEPT !.exists = FALSE]]
  /\ page = "dashboard"
  /\ opportunities = getOpportunities(db)
  /\ updatingIds = {}
  /\ selectedOpportunity = NoOpp
  /\ recommendationModalOpen = FALSE
  /\ opportunityToAssign = NoOpp
  /\ pendingMove = NoMove
  /\ showDoneConfirmation = FALSE
  /\ isEditing = FALSE
  /\ isSaving = FALSE
  /\ inflight = {}
  /\ toasts = <<>>
  /\ teamMembers = <<>>
  /\ searchHits = MemberNames
  /\ sections = NoSections
  /\ pendingSkill \in {NULL, PendingSkillId}
  /\ returned = NoCall
  /\ dbSkills = <<>>
  /\ aiSuggestedSkills = <<>>
  /\ selectedSkills = <<>>
  /\ showResults = FALSE
  /\ dispatched = <<>>
  /\ noSkillInput
  /\ unsorted

clientVars ==
  <<page, opportunities, boardVars, modalVars, inflight, toasts,
    recommendationVars, intakeVars, pendingSkill, dispatched,
    selectVars, historyVars>>

\* createOpportunity(clientId, originalMessage, aiSummary, urgency, skillIds)
createOpportunityCall(id, urgency, skillIds, f) ==
  /\ ~db[id].exists
  /\ db' = createOpportunity(db, id, urgency, skillIds, pendingSkill, f)
  /\ returned' = [NoCall EXCEPT !.op = "createOpportunity", !.id = id,
                                !.threw = createOpportunityThrows(skillIds, f),
                                !.skillIds = skillIds]
  /\ UNCHANGED clientVars

\* updateOpportunityDetails(id, updates, skillIds)
updateOpportunityDetailsCall(id, urgency, assigned_user_id, skillIds, f) ==
  /\ Len(skillLinks(db[id].skills, skillIds, pendingSkill, f)) <= MaxLinks
  /\ db' = updateOpportunityDetails(db, id, urgency, assigned_user_id, skillIds,
                                     pendingSkill, f)
  /\ returned' = [NoCall EXCEPT !.op = "updateOpportunityDetails", !.id = id,
                                !.threw = updateOpportunityDetailsThrows(
                                            db, id, urgency, assigned_user_id, f),
                                !.assigned_user_id = assigned_user_id,
                                !.skillIds = skillIds]
  /\ UNCHANGED clientVars

\* updateOpportunityStatus(id, newStatus)
updateOpportunityStatusCall(id, newStatus, ok) ==
  /\ db' = IF ok /\ db[id].exists THEN updateOpportunityStatus(db, id, newStatus)
           ELSE db
  /\ returned' = [NoCall EXCEPT !.op = "updateOpportunityStatus", !.id = id,
                                !.threw = ~(ok /\ db[id].exists)]
  /\ UNCHANGED clientVars

\* updateOpportunityAssignment(id, assignedUserId)
updateOpportunityAssignmentCall(id, assignedUserId, ok) ==
  /\ db' = IF ok /\ db[id].exists
           THEN updateOpportunityAssignment(db, id, assignedUserId) ELSE db
  /\ returned' = [NoCall EXCEPT !.op = "updateOpportunityAssignment", !.id = id,
                                !.threw = ~(ok /\ db[id].exists),
                                !.assigned_user_id = assignedUserId]
  /\ UNCHANGED clientVars

\* deleteOpportunity(id)
deleteOpportunityCall(id, ok) ==
  /\ db[id].exists
  /\ db' = IF ok THEN deleteOpportunity(db, id) ELSE db
  /\ returned' = [NoCall EXCEPT !.op = "deleteOpportunity", !.id = id,
                                !.threw = ~ok]
  /\ UNCHANGED clientVars

NextService ==
  \/ \E id \in DOMAIN db, urgency \in ServiceUrgencies,
        skillIds \in CreatedSkillIds, f \in Faults :
       createOpportunityCall(id, urgency, skillIds, f)
  \/ \E id \in DOMAIN db, urgency \in UpdatedUrgencies,
        assigned_user_id \in AssignedUserIds, skillIds \in UpdatedSkillIds,
        f \in Faults :
       updateOpportunityDetailsCall(id, urgency, assigned_user_id, skillIds, f)
  \/ \E id \in DOMAIN db, newStatus \in NewStatuses, ok \in BOOLEAN :
       updateOpportunityStatusCall(id, newStatus, ok)
  \/ \E id \in DOMAIN db, assignedUserId \in MemberIds, ok \in BOOLEAN :
       updateOpportunityAssignmentCall(id, assignedUserId, ok)
  \/ \E id \in DOMAIN db, ok \in BOOLEAN : deleteOpportunityCall(id, ok)

SpecService == InitService /\ [][NextService]_vars

\* ------------------------------------------------- the intake overlay
\* SpecIntake is the review overlay of the new-opportunity modal: it has
\* loaded the names of Skills, receives the skills the AI suggests and lets
\* the user add and remove skills.  A name is a sequence of characters.
\* skills the user may have selected
MaxSelected == 2

SkillNames == {<<"a">>, <<"A">>, <<"a", "b">>, <<"B">>, <<"c">>}
SuggestedNames == SkillNames \cup {<<>>}
TypedNames == {<<" ", "B">>, <<"c">>, <<" ">>}

\* String.prototype.toLowerCase on a name
lowerChar(c) ==
  IF c = "A" THEN "a" ELSE IF c = "B" THEN "b"
  ELSE IF c = "P" THEN "p" ELSE IF c = "N" THEN "n" ELSE c
nameToLowerCase(name) == [k \in 1..Len(name) |-> lowerChar(name[k])]

\* String.prototype.includes
nameIncludes(name, part) ==
  \E i \in 0..(Len(name) - Len(part)) : SubSeq(name, i + 1, i + Len(part)) = part

\* String.prototype.trim
RECURSIVE trim(_)
trim(name) ==
  IF Len(name) = 0 THEN name
  ELSE IF Head(name) = " " THEN trim(Tail(name))
  ELSE IF name[Len(name)] = " " THEN trim(SubSeq(name, 1, Len(name) - 1))
  ELSE name

\* skills.find(skill => skill.name.toLowerCase() === aiSkill.toLowerCase())
exactMatch(names, aiSkill) ==
  {i \in 1..Len(names) : nameToLowerCase(names[i]) = nameToLowerCase(aiSkill)}

\* skills.find(skill => skill.name includes aiSkill or aiSkill includes it)
partialMatch(names, aiSkill) ==
  {i \in 1..Len(names) :
     \/ nameIncludes(nameToLowerCase(names[i]), nameToLowerCase(aiSkill))
     \/ nameIncludes(nameToLowerCase(aiSkill), nameToLowerCase(names[i]))}

\* Array.prototype.find: the first element found
first(found) == CHOOSE i \in found : \A j \in found : i <= j

\* a match that tries the partial match before the exact one
matchedSkillNamePartialFirst(names, aiSkill) ==
  IF partialMatch(names, aiSkill) # {}
  THEN names[first(partialMatch(names, aiSkill))]
  ELSE IF exactMatch(names, aiSkill) # {}
  THEN names[first(exactMatch(names, aiSkill))]
  ELSE aiSkill

\* the name pushed on matchedSkillNames for one AI skill
matchedSkillName(names, aiSkill) ==
  IF exactMatch(names, aiSkill) # {}
  THEN names[first(exactMatch(names, aiSkill))]
  ELSE IF partialMatch(names, aiSkill) # {}
  THEN names[first(partialMatch(names, aiSkill))]
  ELSE aiSkill

matchedSkillNames(names, aiSkills) ==
  [k \in 1..Len(aiSkills) |-> matchedSkillName(names, aiSkills[k])]

\* the sequences of length 1 or 2 of different elements of a set
upToTwo(S) ==
  {<<a>> : a \in S} \cup {pair \in S \X S : pair[1] # pair[2]}

InitIntake ==
  /\ db = [id \in {OppIds[i] : i \in 1..Len(OppIds)} |-> InitRow]
  /\ page = "dashboard"
  /\ opportunities = getOpportunities(db)
  /\ updatingIds = {}
  /\ selectedOpportunity = NoOpp
  /\ recommendationModalOpen = FALSE
  /\ opportunityToAssign = NoOpp
  /\ pendingMove = NoMove
  /\ showDoneConfirmation = FALSE
  /\ isEditing = FALSE
  /\ isSaving = FALSE
  /\ inflight = {}
  /\ toasts = <<>>
  /\ teamMembers = <<>>
  /\ searchHits = MemberNames
  /\ sections = NoSections
  /\ pendingSkill = PendingSkillId
  /\ returned = NoCall
  /\ dbSkills \in upToTwo(SkillNames)
  /\ aiSuggestedSkills = <<>>
  /\ selectedSkills = <<>>
  /\ showResults = FALSE
  /\ dispatched = <<>>
  /\ noSkillInput
  /\ unsorted

\* the response of /api/ai/process-email arrives: aiResult.required_skills
processEmailWithAI(aiSkills, ok) ==
  /\ ~showResults
  /\ Len(dbSkills) > 0
  /\ showResults' = TRUE
  /\ IF ok
     THEN /\ aiSuggestedSkills' = aiSkills
          /\ selectedSkills' = matchedSkillNames(dbSkills, aiSkills)
          /\ toasts' = <<>>
     ELSE /\ toasts' = <<"error: Error processing email">>
          /\ UNCHANGED <<aiSuggestedSkills, selectedSkills>>
  /\ UNCHANGED <<db, page, opportunities, boardVars, modalVars, inflight,
                 recommendationVars, serviceVars, dbSkills, dispatched,
                 selectVars, historyVars>>

handleAddSkill(skillInput) ==
  LET trimmed == trim(skillInput) IN
  /\ showResults
  /\ Len(selectedSkills) < MaxSelected
  /\ trimmed # <<>>
  /\ ~Includes(selectedSkills, trimmed)
  /\ selectedSkills' = Append(selectedSkills, trimmed)
  /\ UNCHANGED <<pageVars, recommendationVars, serviceVars, dbSkills,
                 aiSuggestedSkills, showResults, selectVars, historyVars>>

handleRemoveSkill(removed) ==
  /\ showResults
  /\ Includes(selectedSkills, removed)
  /\ selectedSkills' = SelectSeq(selectedSkills, LAMBDA name : name # removed)
  /\ UNCHANGED <<pageVars, recommendationVars, serviceVars, dbSkills,
                 aiSuggestedSkills, showResults, selectVars, historyVars>>

NextIntake ==
  \/ \E aiSkills \in upToTwo(SuggestedNames) \cup {<<>>}, ok \in BOOLEAN :
       processEmailWithAI(aiSkills, ok)
  \/ \E skillInput \in TypedNames : handleAddSkill(skillInput)
  \/ \E removed \in SuggestedNames : handleRemoveSkill(removed)

SpecIntake == InitIntake /\ [][NextIntake]_vars

\* ------------------------------------------- MultiSelect and TagInput
\* SpecSelect is the two skill pickers, MultiSelect and TagInput, mounted
\* with the names of Skills and a selection held by their parent.  A name is
\* a sequence of characters.
\* PENDING_OPTION, character by character
PendingOptionName ==
  <<"P", "e", "n", "d", "i", "n", "g", " ", "/", " ", "N", "o", " ",
    "s", "p", "e", "c", "i", "f", "i", "c", " ", "s", "k", "i", "l", "l">>

\* the names in Skills the pickers are given
AvailableNames == {<<"a">>, <<"A">>, <<"A", "B">>}
\* what the user types in the input of TagInput
TypedValues ==
  {<<"a">>, <<"A", "b">>, <<"b">>, <<" ">>, <<"p">>, <<"c", " ">>,
   nameToLowerCase(PendingOptionName)}
Keys == {"Enter", "Backspace", "Escape", "Tab"}

\* String.prototype.toUpperCase on a character
upperChar(c) ==
  IF c = "a" THEN "A" ELSE IF c = "b" THEN "B"
  ELSE IF c = "c" THEN "C" ELSE IF c = "p" THEN "P" ELSE c

\* tag.charAt(0).toUpperCase() + tag.slice(1).toLowerCase()
capitalize(tag) ==
  IF Len(tag) = 0 THEN tag
  ELSE <<upperChar(tag[1])>> \o nameToLowerCase(Tail(tag))

\* a toggle of a real skill that leaves Pending in the selection
handleToggleKeepsPending(current, optionName) ==
  IF optionName = PendingOptionName
  THEN IF ~Includes(current, optionName) THEN <<PendingOptionName>> ELSE <<>>
  ELSE IF Includes(current, optionName)
       THEN SelectSeq(current, LAMBDA name : name # optionName)
       ELSE Append(current, optionName)

\* MultiSelect.handleToggle: the selection it hands to onSelectionChange
handleToggle(current, optionName) ==
  LET isPending == optionName = PendingOptionName
      isSelected == Includes(current, optionName)
      filtered == SelectSeq(current, LAMBDA name : name # PendingOptionName)
  IN IF isPending
     THEN IF ~isSelected THEN <<PendingOptionName>> ELSE <<>>
     ELSE IF isSelected
          THEN SelectSeq(filtered, LAMBDA name : name # optionName)
          ELSE Append(filtered, optionName)

\* MultiSelect.allOptions
allOptions(props) ==
  IF props.showPendingOption THEN <<PendingOptionName>> \o props.options
  ELSE props.options

\* TagInput: the suggestions its effect computes
suggestions(tagList, typed, props) ==
  LET pending ==
        IF /\ props.showPendingOption
           /\ ~Includes(tagList, PendingOptionName)
           /\ \/ trim(typed) = <<>>
              \/ nameIncludes(nameToLowerCase(PendingOptionName), nameToLowerCase(typed))
        THEN <<PendingOptionName>> ELSE <<>>
      matchingSkills ==
        SelectSeq(props.options, LAMBDA name :
          /\ nameIncludes(nameToLowerCase(name), nameToLowerCase(typed))
          /\ ~Includes(tagList, name))
      filtered == pending \o matchingSkills
  IN SubSeq(filtered, 1, IF Len(filtered) < 6 THEN Len(filtered) ELSE 6)

\* setShowSuggestions(filtered.length > 0 && inputValue.trim() !== "")
suggestionsShown(tagList, typed, props) ==
  Len(suggestions(tagList, typed, props)) > 0 /\ trim(typed) # <<>>

\* addTag returns before it changes anything
isValidTag(tag, props) ==
  props.restrictToAvailable =>
    (tag = PendingOptionName \/ Includes(props.options, tag))

\* TagInput.addTag: the tags after it
addTag(tagList, tag, props) ==
  IF ~isValidTag(tag, props) THEN tagList
  ELSE LET normalizedTag ==
             IF tag = PendingOptionName THEN tag ELSE capitalize(tag)
       IN IF normalizedTag = PendingOptionName
          THEN IF ~Includes(tagList, PendingOptionName)
               THEN <<PendingOptionName>> ELSE tagList
          ELSE LET filteredTags ==
                     SelectSeq(tagList, LAMBDA name : name # PendingOptionName)
               IN IF ~Includes(filteredTags, normalizedTag) /\ trim(normalizedTag) # <<>>
                  THEN Append(filteredTags, normalizedTag) ELSE tagList

\* tags.filter((_, i) => i !== index)
removeTag(tagList, index) ==
  SubSeq(tagList, 1, index - 1) \o SubSeq(tagList, index + 1, Len(tagList))

\* the selections that do not mix the Pending option with a skill
InitialSelections(names) ==
  {<<>>, <<PendingOptionName>>, <<names[1]>>, names}

InitSelect ==
  /\ db = [id \in {OppIds[i] : i \in 1..Len(OppIds)} |-> InitRow]
  /\ page = "dashboard"
  /\ opportunities = getOpportunities(db)
  /\ updatingIds = {}
  /\ selectedOpportunity = NoOpp
  /\ recommendationModalOpen = FALSE
  /\ opportunityToAssign = NoOpp
  /\ pendingMove = NoMove
  /\ showDoneConfirmation = FALSE
  /\ isEditing = FALSE
  /\ isSaving = FALSE
  /\ inflight = {}
  /\ toasts = <<>>
  /\ teamMembers = <<>>
  /\ searchHits = MemberNames
  /\ sections = NoSections
  /\ pendingSkill = PendingSkillId
  /\ returned = NoCall
  /\ dbSkills = <<>>
  /\ aiSuggestedSkills = <<>>
  /\ selectedSkills = <<>>
  /\ showResults = FALSE
  /\ dispatched = <<>>
  /\ selectProps \in [options : upToTwo(AvailableNames), disabled : BOOLEAN,
                      restrictToAvailable : BOOLEAN, showPendingOption : BOOLEAN]
  /\ selected \in InitialSelections(selectProps.options)
  /\ tags \in InitialSelections(selectProps.options)
  /\ inputValue = <<>>
  /\ showSuggestions = FALSE
  /\ unsorted

notSelectVars ==
  <<pageVars, recommendationVars, serviceVars, intakeVars, historyVars>>

\* a click on an option of the dropdown of MultiSelect, or on a badge of it
toggle(optionName) ==
  /\ ~selectProps.disabled
  /\ Includes(allOptions(selectProps), optionName) \/ Includes(selected, optionName)
  /\ Len(handleToggle(selected, optionName)) <= MaxSelected
  /\ selected' = handleToggle(selected, optionName)
  /\ UNCHANGED <<notSelectVars, selectProps, tags, inputValue, showSuggestions>>

\* onChange of the input of TagInput, and the effect that follows
setInputValue(value) ==
  /\ ~selectProps.disabled
  /\ inputValue' = value
  /\ showSuggestions' = suggestionsShown(tags, value, selectProps)
  /\ UNCHANGED <<notSelectVars, selectProps, selected, tags>>

\* addTag(tag), and the effect that follows
added(tag) ==
  /\ Len(addTag(tags, tag, selectProps)) <= MaxSelected
  /\ tags' = addTag(tags, tag, selectProps)
  /\ IF isValidTag(tag, selectProps)
     THEN inputValue' = <<>> /\ showSuggestions' = FALSE
     ELSE UNCHANGED <<inputValue, showSuggestions>>

\* removeTag(index), and the effect that follows
removed(index) ==
  /\ tags' = removeTag(tags, index)
  /\ showSuggestions' = suggestionsShown(tags', inputValue, selectProps)
  /\ UNCHANGED inputValue

handleInputKeyDown(key) ==
  LET typed == trim(inputValue)
      shown == suggestions(tags, inputValue, selectProps)
      found == {i \in 1..Len(shown) : nameToLowerCase(shown[i]) = nameToLowerCase(typed)}
  IN
  /\ ~selectProps.disabled
  /\ IF key = "Enter" /\ typed # <<>>
     THEN IF selectProps.restrictToAvailable
          THEN IF found # {}
               THEN added(shown[first(found)])
               ELSE UNCHANGED <<tags, inputValue, showSuggestions>>
          ELSE added(typed)
     ELSE IF key = "Backspace" /\ inputValue = <<>> /\ Len(tags) > 0
     THEN removed(Len(tags))
     ELSE IF key = "Escape"
     THEN showSuggestions' = FALSE /\ UNCHANGED <<tags, inputValue>>
     ELSE UNCHANGED <<tags, inputValue, showSuggestions>>
  /\ UNCHANGED <<notSelectVars, selectProps, selected>>

\* a click on a row of the suggestions of TagInput
handleSuggestionClick(suggestion) ==
  /\ ~selectProps.disabled
  /\ showSuggestions
  /\ Includes(suggestions(tags, inputValue, selectProps), suggestion)
  /\ added(suggestion)
  /\ UNCHANGED <<notSelectVars, selectProps, selected>>

\* a click on the X of a badge of TagInput
removeTagClick(index) ==
  /\ ~selectProps.disabled
  /\ index \in 1..Len(tags)
  /\ removed(index)
  /\ UNCHANGED <<notSelectVars, selectProps, selected>>

\* onFocus of the input of TagInput
onFocus ==
  /\ ~selectProps.disabled
  /\ ~showSuggestions
  /\ Len(suggestions(tags, inputValue, selectProps)) > 0
  /\ showSuggestions' = TRUE
  /\ UNCHANGED <<notSelectVars, selectProps, selected, tags, inputValue>>

NextSelect ==
  \/ \E optionName \in AvailableNames \cup {PendingOptionName} : toggle(optionName)
  \/ \E value \in TypedValues \cup {<<>>} : setInputValue(value)
  \/ \E key \in Keys : handleInputKeyDown(key)
  \/ \E suggestion \in AvailableNames \cup {PendingOptionName} :
       handleSuggestionClick(suggestion)
  \/ \E index \in 1..MaxSelected : removeTagClick(index)
  \/ onFocus

SpecSelect == InitSelect /\ [][NextSelect]_vars

\* ------------------------------------------------ the history page's sort
\* SpecSort is the history page with the rows it has loaded, no filter set,
\* and the user choosing the sort option.
\* rows loaded at most
MaxRows == 3
SortOptions == {"recent", "oldest", "urgency-high", "urgency-low", "status"}
HistoryStatuses == {"done", "archived"}

\* getOpportunities: the rows, .order('created_at', { ascending: false })
LoadedRows ==
  UNION {
    {[k \in 1..n |-> [id |-> n + 1 - k, created_at |-> n + 1 - k,
                      urgency |-> u[k], status |-> st[k]]] :
       u \in [1..n -> Urgencies], st \in [1..n -> HistoryStatuses]} :
    n \in 1..MaxRows}

\* a.status.localeCompare(b.status): archived < cancelled < done
statusCompare(a, b) ==
  LET key(status) == IF status = "archived" THEN 1
                     ELSE IF status = "cancelled" THEN 2 ELSE 3
  IN key(a) - key(b)

\* the function handed to sort, for the sort option chosen
compareRows(option, a, b) ==
  IF option = "oldest" THEN a.created_at - b.created_at
  ELSE IF option = "urgency-high"
  THEN IF a.urgency = "high" THEN -1 ELSE IF a.urgency = "medium" THEN 1 ELSE 2
  ELSE IF option = "urgency-low"
  THEN IF a.urgency = "low" THEN -1 ELSE IF a.urgency = "medium" THEN 1 ELSE 2
  ELSE IF option = "status" THEN statusCompare(a.status, b.status)
  ELSE b.created_at - a.created_at

sign(n) == IF n < 0 THEN -1 ELSE IF n > 0 THEN 1 ELSE 0

\* ECMAScript: the function is a consistent comparator for the elements
consistentComparator(rows, compare) ==
  /\ \A a \in rows, b \in rows : sign(compare[a, b]) = -sign(compare[b, a])
  /\ \A a \in rows, b \in rows, c \in rows :
       (compare[a, b] <= 0 /\ compare[b, c] <= 0) => compare[a, c] <= 0

\* the orders of the elements of a list
permutations(list) ==
  {[k \in 1..Len(list) |-> list[f[k]]] :
     f \in {g \in [1..Len(list) -> 1..Len(list)] :
              \A i \in 1..Len(list), j \in 1..Len(list) : g[i] = g[j] => i = j}}

\* Array.prototype.sort: the elements in the order of a consistent
\* comparator, in an implementation-defined order otherwise
sortOutcomes(list, option) ==
  LET rows == {list[k] : k \in 1..Len(list)}
      compare == [a \in rows, b \in rows |-> compareRows(option, a, b)]
  IN IF Len(list) < 2 THEN {list}
     ELSE IF consistentComparator(rows, compare) THEN {sort(list, compare)}
     ELSE permutations(list)

InitSort ==
  /\ db = [id \in {OppIds[i] : i \in 1..Len(OppIds)} |-> InitRow]
  /\ page = "history"
  /\ opportunities \in LoadedRows
  /\ updatingIds = {}
  /\ selectedOpportunity = NoOpp
  /\ recommendationModalOpen = FALSE
  /\ opportunityToAssign = NoOpp
  /\ pendingMove = NoMove
  /\ showDoneConfirmation = FALSE
  /\ isEditing = FALSE
  /\ isSaving = FALSE
  /\ inflight = {}
  /\ toasts = <<>>
  /\ teamMembers = <<>>
  /\ searchHits = MemberNames
  /\ sections = NoSections
  /\ pendingSkill = PendingSkillId
  /\ returned = NoCall
  /\ dbSkills = <<>>
  /\ aiSuggestedSkills = <<>>
  /\ selectedSkills = <<>>
  /\ showResults = FALSE
  /\ dispatched = <<>>
  /\ noSkillInput
  /\ sortBy = "recent"
  /\ filteredAndSortedOpportunities \in sortOutcomes(opportunities, sortBy)

\* the sort option is chosen in the filter bar, and the page renders
setSortBy(option) ==
  /\ option # sortBy
  /\ sortBy' = option
  /\ filteredAndSortedOpportunities' \in sortOutcomes(opportunities, option)
  /\ UNCHANGED <<pageVars, recommendationVars, serviceVars, intakeVars, selectVars>>

NextSort == \E option \in SortOptions : setSortBy(option)

SpecSort == InitSort /\ [][NextSort]_vars

\* ------------------------------------------------------------ properties
Ids == {OppIds[i] : i \in 1..Len(OppIds)}
Terminal == {"cancelled", "archived"}

\* the continuation of call r runs in this step
completes(r, ok) ==
  \/ completeStatus(r, ok)
  \/ completeMove(r, ok)
  \/ completeAssign(r, ok)
  \/ completeDetails(r, ok)
  \/ completeModalCancel(r, ok)
  \/ completeHistoryCancel(r, ok)
  \/ completeModalDelete(r, ok)
  \/ completeDelete(r, ok)
  \/ completeHistoryDelete(r, ok)

\* the calls whose continuation runs in this step
completing == {r \in inflight : completes(r, TRUE) \/ completes(r, FALSE)}

\* the step changes neither the list, nor the database, nor the calls in flight
nothingCommitted ==
  /\ opportunities' = opportunities
  /\ db' = db
  /\ inflight' = inflight
  /\ updatingIds' = updatingIds

\* C1: a card dragged from the Assigned column and dropped on the New column
\* is rejected: the list is unchanged, no database call is made, no modal or
\* dialog opens, and an error notification is shown.
C1_DropAssignedOnNewRejected ==
  [][\A i \in Idx :
       (opportunities[i].status = "assigned" /\ handleDragEnd(i, "new"))
         => /\ nothingCommitted
            /\ UNCHANGED <<recommendationModalOpen, opportunityToAssign,
                           showDoneConfirmation, pendingMove, selectedOpportunity>>
            /\ toasts' = <<"error: Cannot move from Assigned back to New">>]_vars

C1_Witness ==
  /\ toasts = <<"error: Cannot move from Assigned back to New">>
  /\ \E i \in Idx : opportunities[i].status = "assigned"
  /\ noDialog

\* C2 as stated: no step changes a persisted status from assigned to new.
C2_NeverAssignedToNew ==
  [][\A o \in Ids : db[o].status = "assigned" => db'[o].status # "new"]_vars

\* C2, amended: a persisted status changes from assigned to new only when a
\* detail edit that clears the assignee is saved, or when a drag to New of a
\* card the board showed in another column than Assigned is saved; a drop
\* from Assigned on New, the column buttons, assignment, cancel and archive
\* never do it.
C2_AssignedToNewOnlyBy ==
  [][\A o \in Ids :
       (db[o].status = "assigned" /\ db'[o].status = "new")
         => \E r \in completing :
              /\ r.id = o
              /\ \/ r.kind = "details" /\ r.assigned_user_id = NULL
                 \/ /\ r.kind = "move"
                    /\ r.handler = "handleDragEnd"
                    /\ r.newStatus = "new"
                    /\ r.previousStatus # "assigned"]_vars

C2_Witness ==
  \E r \in inflight :
    /\ r.kind = "details"
    /\ r.assigned_user_id = NULL
    /\ db[r.id].status = "assigned"
    /\ db[r.id].assigned_user_id # NULL

\* C3: every opportunity that has an assignee has a status other than new,
\* in the database and in the board's list.
C3_AssigneeImpliesNotNew ==
  /\ \A o \in Ids : db[o].assigned_user_id # NULL => db[o].status # "new"
  /\ page = "dashboard" =>
       \A i \in Idx : opportunities[i].assigneeId # NULL
                        => opportunities[i].status # "new"

\* C4 as stated: a status becomes done, in the database or in the list, only
\* by a move the 'Mark as Done?' dialog confirmed.
C4_DoneOnlyAfterDialog ==
  [][/\ \A o \in Ids :
          (db[o].status # "done" /\ db'[o].status = "done")
            => \E r \in completing : r.id = o /\ r.handler = "handleConfirmDone"
     /\ \A i \in Idx :
          (/\ opportunities[i].status # "done"
           /\ find(opportunities', opportunities[i].id).status = "done"
           /\ completing = {}
           /\ page' = page)
            => \E r \in inflight' :
                 /\ r.id = opportunities[i].id
                 /\ r.prevOpps = opportunities
                 /\ r.handler = "handleConfirmDone"]_vars

\* C4, amended: a status becomes done only by a move the 'Mark as Done?'
\* dialog confirmed or by the Done button of a card of the Assigned column,
\* which commits the move without the dialog; a drag to Done commits nothing
\* before the dialog is confirmed, and closing the dialog without confirming
\* leaves list and database unchanged.
C4_DoneOnlyAfterDialogOrButton ==
  [][/\ \A o \in Ids :
          (db[o].status # "done" /\ db'[o].status = "done")
            => \E r \in completing :
                 /\ r.id = o
                 /\ r.handler \in {"handleConfirmDone", "handleMoveToComplete"}
     /\ \A i \in Idx :
          (/\ opportunities[i].status # "done"
           /\ find(opportunities', opportunities[i].id).status = "done"
           /\ completing = {}
           /\ page' = page)
            => \E r \in inflight' :
                 /\ r.id = opportunities[i].id
                 /\ r.prevOpps = opportunities
                 /\ r.handler \in {"handleConfirmDone", "handleMoveToComplete"}
     /\ \A i \in Idx :
          (opportunities[i].status # "done" /\ handleDragEnd(i, "done"))
            => nothingCommitted /\ showDoneConfirmation'
     /\ (cancelDoneConfirmation \/ dismissDoneConfirmation)
          => nothingCommitted /\ ~showDoneConfirmation']_vars

C4_Witness ==
  /\ toasts = <<"success: Opportunity moved to done">>
  /\ \E o \in Ids : db[o].status = "done"
  /\ \A r \in inflight : r.handler # "handleConfirmDone"

\* C5: a drag from New to Assigned changes neither the list nor the database
\* and makes no call: it opens the assignment modal with the move pending;
\* closing the modal without choosing a member leaves list and database as
\* they are, the card new and unassigned, and clears the pending move.
C5_NewToAssignedWaitsForMember ==
  [][/\ \A i \in Idx :
          (opportunities[i].status = "new" /\ handleDragEnd(i, "assigned"))
            => /\ nothingCommitted
               /\ recommendationModalOpen'
               /\ opportunityToAssign' = opportunities[i]
               /\ pendingMove' = [opportunityId |-> opportunities[i].id,
                                  newStatus |-> "assigned"]
     /\ onOpenChangeFalse
          => /\ nothingCommitted
             /\ pendingMove' = NoMove
             /\ ~recommendationModalOpen'
             /\ opportunityToAssign' = NoOpp]_vars

C5_Witness ==
  /\ assignModalShown
  /\ pendingMove = [opportunityId |-> opportunityToAssign.id, newStatus |-> "assigned"]
  /\ find(opportunities, pendingMove.opportunityId).status = "new"
  /\ find(opportunities, pendingMove.opportunityId).assigneeId = NULL
  /\ db[pendingMove.opportunityId].status = "new"
  /\ db[pendingMove.opportunityId].assigned_user_id = NULL

\* C6: over new, assigned and done, validateMove is invalid exactly for the
\* move from assigned to new; every other pair is valid.
\* Checked for the column of every card of the board and every column it
\* can be dropped on.
C6_ValidateMoveTable ==
  \A i \in 1..Len(opportunities), toStatus \in Columns :
    LET fromStatus == opportunities[i].status IN
    fromStatus \in Columns =>
      (validateMove(fromStatus, toStatus)
         <=> ~(fromStatus = "assigned" /\ toStatus = "new"))

\* a drag from Done to Assigned passed validateMove and was started
C6_Witness ==
  \E r \in inflight :
    /\ r.kind = "move"
    /\ r.handler = "handleDragEnd"
    /\ r.previousStatus = "done"
    /\ r.newStatus = "assigned"

\* C7: once a persisted status is cancelled or archived, no step changes it.
C7_TerminalStatusKept ==
  [][\A o \in Ids : db[o].status \in Terminal => db'[o].status = db[o].status]_vars

\* C8: whatever the filters, no opportunity whose status in the list is
\* cancelled or archived is counted by the board or shown in a column.
C8_NoTerminalOnBoard ==
  page = "dashboard" =>
    \A filters \in FilterSets :
      /\ \A k \in 1..Len(filteredOpportunities(opportunities, filters)) :
           filteredOpportunities(opportunities, filters)[k].status \notin Terminal
      /\ \A col \in Columns :
           \A k \in 1..Len(columnCards(opportunities, filters, col)) :
             columnCards(opportunities, filters, col)[k].status \notin Terminal

C8_Witness ==
  /\ page = "dashboard"
  /\ \E i \in Idx : opportunities[i].status \in Terminal
  /\ \A filters \in FilterSets : Len(filteredOpportunities(opportunities, filters)) = 0

\* ----------------------------------------- properties of the ranking
idSet(ids) == {ids[k] : k \in 1..Len(ids)}
required == idSet(requiredSkillIdsOf(opportunityToAssign))
listedIn(section, member) == \E k \in 1..Len(section) : section[k].name = member.name
shownMembers == {teamMembers[k] : k \in {j \in 1..Len(teamMembers) :
                                          teamMembers[j].name \in searchHits}}

\* the three groups of the claim decide where a member is listed
bySkillIds(member) ==
  /\ listedIn(sections.perfectMatches, member)
       <=> required \subseteq idSet(member.skillIds)
  /\ listedIn(sections.partialMatches, member)
       <=> /\ required \cap idSet(member.skillIds) # {}
           /\ ~(required \subseteq idSet(member.skillIds))
  /\ listedIn(sections.noMatches, member)
       <=> required \cap idSet(member.skillIds) = {}

listed == sections.perfectMatches \o sections.partialMatches \o sections.noMatches

groupsInOrder ==
  /\ \A k \in 1..Len(sections.perfectMatches) :
       sections.perfectMatches[k].matchType = "perfect"
  /\ \A k \in 1..Len(sections.partialMatches) :
       sections.partialMatches[k].matchType = "partial"
  /\ \A k \in 1..Len(sections.noMatches) :
       sections.noMatches[k].matchType = "none"
  /\ {listed[k].name : k \in 1..Len(listed)} = {m.name : m \in shownMembers}
  /\ Len(listed) = Cardinality(shownMembers)
  /\ \A i \in 1..Len(listed), j \in 1..Len(listed) :
       i < j => /\ order(listed[i].matchType) <= order(listed[j].matchType)
                /\ listed[i].matchType = listed[j].matchType
                     => localeCompare(listed[i].name, listed[j].name) <= 0

\* a member with every required id is listed before any member with none
allBeforeNone ==
  \A i \in 1..Len(listed), j \in 1..Len(listed) :
    (/\ required \subseteq idSet(listed[i].skillIds)
     /\ required \cap idSet(listed[j].skillIds) = {})
      => i < j

\* C10 as stated: perfect matches are listed before partial matches before
\* the other members, each group in alphabetical order of name; a member with
\* all required skills is listed before any member with none.
C10_ListedByMatchThenName ==
  sections.rendered => groupsInOrder /\ (required # {} => allBeforeNone)

\* C10, amended: the same, the last part only when the members are ranked,
\* that is unless the required skill is the single option 'Pending / No
\* specific skill'.
C10_ListedByMatchThenNameUnlessPending ==
  sections.rendered =>
    /\ groupsInOrder
    /\ (required # {} /\ ~hasOnlyPending(opportunityToAssign)) => allBeforeNone

C10_Witness ==
  /\ sections.rendered
  /\ required = {"s1", "s2"}
  /\ ~hasOnlyPending(opportunityToAssign)
  /\ Len(sections.perfectMatches) = 1
  /\ Len(sections.partialMatches) = 2
  /\ teamMembers[1].name = "Zoe"
  /\ sections.partialMatches[1].name = "Ben"

\* --------------------------------------------- properties of the rollback
BoardKinds == {"status", "move", "assign"}
failed(r) ==
  \/ completeStatus(r, FALSE)
  \/ completeMove(r, FALSE)
  \/ completeAssign(r, FALSE)
isError(toast) ==
  toast \in {"error: Failed to update opportunity status. Please try again.",
             "error: Failed to assign opportunity"}

started ==
  {r \in inflight' :
     \A q \in inflight : [q EXCEPT !.modalAlive = FALSE] # [r EXCEPT !.modalAlive = FALSE]}

\* C12: a row leaves the table only in the completion of a delete call; a
\* delete call is started only by a delete button whose prompt the user
\* confirmed (the board's handleDelete only by the completion of such a call
\* of the details modal); a declined prompt changes nothing.
C12_DeleteOnlyAfterConfirm ==
  [][/\ \A o \in Ids :
          (db[o].exists /\ ~db'[o].exists)
            => \E r \in completing :
                 r.id = o /\ r.kind \in {"modalDelete", "delete", "historyDelete"}
     /\ \A r \in started :
          /\ r.kind = "modalDelete" => deleteOpportunityClick(TRUE)
          /\ r.kind = "historyDelete"
               => \E i \in Idx : handleDeleteOpportunity(i, TRUE)
          /\ r.kind = "delete"
               => \E q \in completing : q.kind = "modalDelete" /\ q.id = r.id
     /\ (deleteOpportunityClick(FALSE)
          \/ \E i \in Idx : handleDeleteOpportunity(i, FALSE))
          => UNCHANGED <<db, opportunities, inflight>>]_vars

\* the row was deleted from the details modal and the board's own delete
\* call is still in flight
C12_Witness ==
  /\ \E o \in Ids : ~db[o].exists
  /\ toasts = <<"success: Opportunity deleted successfully">>
  /\ opportunities = <<>>
  /\ \E r \in inflight : r.kind = "delete"

\* ------------------------------------- properties of the status calls
StatusKinds == {"status", "move", "modalCancel", "historyCancel"}
OtherFields ==
  {"exists", "assigned_user_id", "urgency", "ai_summary", "original_message", "skills"}

\* C13: the completion of a status call that is not an assignment (drag
\* move, Done, Archive, Cancel) changes no field of any row but the status of
\* its own row: assignee, urgency, summary, original message and skill links
\* are the same before and after.
C13_StatusCallWritesStatusOnly ==
  [][\A r \in completing :
       r.kind \in StatusKinds
         => \A o \in Ids :
              /\ \A field \in OtherFields : db'[o][field] = db[o][field]
              /\ o # r.id => db'[o] = db[o]]_vars

\* an assigned opportunity with an edited urgency has been archived
C13_Witness ==
  /\ toasts = <<"success: Opportunity moved to archived", "success: Opportunity archived">>
  /\ \E o \in Ids : /\ db[o].status = "archived"
                     /\ db[o].assigned_user_id = "m1"
                     /\ db[o].urgency = "low"
                     /\ db[o].skills = <<"s1">>

\* ------------------------------------------ properties of the service
\* the skill links a call given skillIds is to leave
linksFor(skillIds) ==
  IF Len(skillIds.ids) > 0 THEN skillIds.ids ELSE <<pendingSkill>>
\* the call says which links there are to be
linksSaid(skillIds) == Len(skillIds.ids) > 0 \/ pendingSkill # NULL

\* C14: after createOpportunity has returned without throwing, the row it
\* made exists with status new and no assignee, and its skill links are
\* the skill ids supplied, or the 'Pending' skill when none was supplied and
\* Skills has that row.
C14_CreatedAsRequested ==
  (returned.op = "createOpportunity" /\ ~returned.threw)
    => /\ db[returned.id].exists
       /\ toLowerCase(db[returned.id].status) = "new"
       /\ db[returned.id].assigned_user_id = NULL
       /\ linksSaid(returned.skillIds)
            => db[returned.id].skills = linksFor(returned.skillIds)

\* C16: getHighPriorityCount is the number of opportunities getOpportunities
\* reports with urgency high, status new and no assignee.
C16_CountMatchesList ==
  getHighPriorityCount(db) =
    Cardinality({k \in 1..Len(getOpportunities(db)) :
                   /\ getOpportunities(db)[k].urgency = "high"
                   /\ getOpportunities(db)[k].status = "new"
                   /\ getOpportunities(db)[k].assigneeId = NULL})

C19_LinksReplaced ==
  (/\ returned.op = "updateOpportunityDetails"
   /\ ~returned.threw
   /\ returned.skillIds.defined
   /\ linksSaid(returned.skillIds))
    => db[returned.id].skills = linksFor(returned.skillIds)

optimistic(r) == IF r.kind = "assign" THEN "assigned" ELSE r.newStatus

\* C17: when a status or assignment call of the board fails while another
\* one is in flight, its rollback leaves the other call's change in the
\* list: the other call's card still has the status that call gave it.
C17_RollbackKeepsOtherChange ==
  [][\A r \in completing, other \in inflight' :
       (/\ r.kind \in BoardKinds /\ failed(r)
        /\ other.kind \in BoardKinds /\ other \in inflight
        /\ page = "dashboard")
         => \E i \in 1..Len(opportunities') :
              /\ opportunities'[i].id = other.id
              /\ opportunities'[i].status = optimistic(other)]_vars

\* ------------------------------------------------ properties of the events
succeeded(r) ==
  \/ completeStatus(r, TRUE)
  \/ completeMove(r, TRUE)
  \/ completeAssign(r, TRUE)

\* the previous status of the opportunity of a call: the status of its card
\* in the list when the handler started, and for an assignment the status of
\* the opportunity the team-recommendation modal was opened for
previous(r) ==
  IF r.kind = "assign" THEN r.previousStatus
  ELSE IF find(r.prevOpps, r.id) = NoOpp THEN "undefined"
  ELSE find(r.prevOpps, r.id).status

mixed(names) ==
  /\ Includes(names, PendingOptionName)
  /\ \E k \in 1..Len(names) : names[k] # PendingOptionName

C21_PendingNeverWithSkill == ~mixed(selected) /\ ~mixed(tags)

\* a skill typed in TagInput stands alone where the Pending option could be
\* chosen, next to a MultiSelect that holds the Pending option alone
C21_Witness ==
  /\ selectProps.showPendingOption
  /\ tags = <<<<"B">>>>
  /\ selected = <<PendingOptionName>>
  /\ selectProps.options = <<<<"a">>>>

\* ---------------------------------------------------------------------
\* C22: with restrictToAvailable, a tag that a step of TagInput adds to the
\* tags is the Pending option or exactly one of the names in availableSkills,
\* and it is in the tags once.
occurrences(names, name) == Cardinality({k \in 1..Len(names) : names[k] = name})

C22_AddedTagIsAvailableName ==
  [][selectProps.restrictToAvailable =>
       \A k \in 1..Len(tags') :
         occurrences(tags', tags'[k]) > occurrences(tags, tags'[k]) =>
           /\ tags'[k] = PendingOptionName \/ Includes(selectProps.options, tags'[k])
           /\ occurrences(tags', tags'[k]) = 1]_vars

\* ---------------------------------------------------------------------
\* C23: with 'Highest Urgency' no row of the history list precedes a row of
\* strictly higher urgency, with 'Lowest Urgency' none precedes a row of
\* strictly lower urgency, and the function that compares two rows gives
\* opposite signs when its arguments are exchanged.
urgencyRank(urgency) ==
  IF urgency = "high" THEN 3 ELSE IF urgency = "medium" THEN 2 ELSE 1

SuccessNotes ==
  {"success: Opportunity moved to archived", "success: Opportunity archived",
   "success: Opportunity moved to cancelled", "success: Opportunity cancelled"}

C24_SuccessOnlyWhenPersisted ==
  [][\A r \in completing :
       (r.kind = "status" /\ r.handler \in {"handleArchive", "handleCancel"})
         => /\ (\E k \in 1..Len(toasts') : toasts'[k] \in SuccessNotes)
                 => (completeStatus(r, TRUE) /\ db'[r.id].status = r.newStatus)
            /\ completeStatus(r, FALSE)
                 => /\ toasts' = <<"error: Failed to update opportunity status. Please try again.">>
                    /\ find(opportunities', r.id).status = previous(r)]_vars

\* ---------------------------------------------------------------------
\* C25: the step that completes a successful status move or assignment of
\* the board leaves, in the entry of the opportunity in the list, the id, the
\* urgency, the required skills and the required-skill ids as they were; only
\* status and assignee may differ.
C25_SuccessKeepsOtherFields ==
  [][\A r \in completing :
       (r.kind \in BoardKinds /\ succeeded(r) /\ find(opportunities, r.id) # NoOpp)
         => LET before == find(opportunities, r.id)
                after == find(opportunities', r.id)
            IN /\ after.id = before.id
               /\ after.urgency = before.urgency
               /\ after.requiredSkill = before.requiredSkill
               /\ after.requiredSkillId = before.requiredSkillId
               /\ after.requiredSkillIds = before.requiredSkillIds]_vars

\* ---------------------------------------------------------------------
\* C26: an opportunity id is in updatingIds exactly when a status, move or
\* assignment call of the board for that opportunity is in flight; with no
\* such call in flight updatingIds is empty.
boardCalls(o) == {r \in inflight : r.kind \in BoardKinds /\ r.id = o}

C26_UpdatingIffInFlight ==
  \A o \in Ids : o \in updatingIds <=> boardCalls(o) # {}

====
